---- MODULE Spec2Model ----
(***************************************************************************)
(* Undo/redo trade history (Command pattern) of design-patterns-modern.    *)
(*                                                                         *)
(* The receiver is the Portfolio of src/command/modern/main.cpp: a map     *)
(* from symbol to int quantity and a cash balance of type double.  The     *)
(* history is TradeHistory: two vectors of TradeAction values.             *)
(*                                                                         *)
(* cash is an IEEE-754 binary64 value.  Its arithmetic is modelled         *)
(* exactly: a finite double is sign * mant * 2^exp with mant an odd        *)
(* natural number below 2^53 (or zero), and every +, - and * rounds the    *)
(* exact result to 53 significant bits, ties to even.  Naturals of that    *)
(* size do not fit TLC's integers, so mant is a sequence of limbs in base   *)
(* 2^15, least significant first.  Exponent overflow, subnormals,          *)
(* infinities and NaN are outside the range of the values used here.       *)
(***************************************************************************)
EXTENDS Integers, Sequences, FiniteSets, TLC

(***************************************************************************)
(* Natural numbers as sequences of limbs in base 2^15, least significant   *)
(* limb first, no zero limb at the most significant end; zero is <<>>.     *)
(***************************************************************************)

Base == 2 ^ 15

Max(x, y) == IF x >= y THEN x ELSE y

Min(x, y) == IF x <= y THEN x ELSE y

Lim(a, i) == IF i >= 1 /\ i <= Len(a) THEN a[i] ELSE 0

LNorm(a) ==
    IF \A i \in 1..Len(a) : a[i] = 0 THEN <<>>
    ELSE SubSeq(a, 1, CHOOSE i \in 1..Len(a) :
                          a[i] # 0 /\ \A k \in (i + 1)..Len(a) : a[k] = 0)

RECURSIVE LFromNat(_)
LFromNat(n) == IF n = 0 THEN <<>> ELSE <<n % Base>> \o LFromNat(n \div Base)

RECURSIVE LToNat(_)
LToNat(a) == IF a = <<>> THEN 0 ELSE a[1] + Base * LToNat(Tail(a))

\* number of significant bits
LBitLen(a) ==
    IF a = <<>> THEN 0
    ELSE 15 * (Len(a) - 1) + (CHOOSE n \in 1..15 : a[Len(a)] < 2 ^ n /\ a[Len(a)] >= 2 ^ (n - 1))

\* bit i (from 1, least significant first)
LBit(a, i) == (Lim(a, ((i - 1) \div 15) + 1) \div (2 ^ ((i - 1) % 15))) % 2

\* carry into limb i of a + b: a lower limb generates it and every limb in
\* between propagates it
LCarry(a, b, i) ==
    \E j \in 1..(i - 1) :
        /\ Lim(a, j) + Lim(b, j) >= Base
        /\ \A k \in (j + 1)..(i - 1) : Lim(a, k) + Lim(b, k) >= Base - 1

LAdd(a, b) ==
    LNorm([i \in 1..(Max(Len(a), Len(b)) + 1) |->
             (Lim(a, i) + Lim(b, i) + (IF LCarry(a, b, i) THEN 1 ELSE 0)) % Base])

\* borrow into limb i of a - b
LBorrow(a, b, i) ==
    \E j \in 1..(i - 1) :
        /\ Lim(a, j) < Lim(b, j)
        /\ \A k \in (j + 1)..(i - 1) : Lim(a, k) <= Lim(b, k)

\* a - b for a >= b
LSub(a, b) ==
    LNorm([i \in 1..Len(a) |->
             (Lim(a, i) - Lim(b, i) - (IF LBorrow(a, b, i) THEN 1 ELSE 0)) % Base])

\* TRUE iff a < b: at the most significant limb where they differ a is smaller
LLess(a, b) ==
    \E i \in 1..Max(Len(a), Len(b)) :
        /\ Lim(a, i) < Lim(b, i)
        /\ \A k \in (i + 1)..Max(Len(a), Len(b)) : Lim(a, k) = Lim(b, k)

\* a * 2^k
LShl(a, k) ==
    LET w == k \div 15
        r == k % 15
    IN  LNorm([i \in 1..(Len(a) + w + 1) |->
                 ((Lim(a, i - w) * (2 ^ r)) % Base)
                 + ((Lim(a, i - w - 1) * (2 ^ r)) \div Base)])

\* floor(a / 2^k)
LShr(a, k) ==
    LET w == k \div 15
        r == k % 15
    IN  LNorm([i \in 1..Max(Len(a) - w, 0) |->
                 (Lim(a, i + w) \div (2 ^ r))
                 + ((Lim(a, i + w + 1) % (2 ^ r)) * (2 ^ (15 - r)))])

\* a * c for one limb c
RECURSIVE LMulLimbAt(_, _, _, _)
LMulLimbAt(a, c, i, carry) ==
    IF i > Len(a) THEN (IF carry = 0 THEN <<>> ELSE <<carry>>)
    ELSE LET t == a[i] * c + carry
         IN  <<t % Base>> \o LMulLimbAt(a, c, i + 1, t \div Base)

LMulLimb(a, c) == LNorm(LMulLimbAt(a, c, 1, 0))

RECURSIVE LMulAt(_, _, _, _)
LMulAt(a, b, j, acc) ==
    IF j > Len(b) THEN acc
    ELSE LMulAt(a, b, j + 1, LAdd(acc, LShl(LMulLimb(a, b[j]), 15 * (j - 1))))

LMul(a, b) == LMulAt(a, b, 1, <<>>)

\* number of zero bits at the least significant end of a non-zero a
LLowZeros(a) ==
    CHOOSE z \in 0..(LBitLen(a) - 1) :
        LBit(a, z + 1) = 1 /\ \A i \in 1..z : LBit(a, i) = 0

(***************************************************************************)
(* binary64 arithmetic                                                     *)
(***************************************************************************)

\* significand precision of double (DBL_MANT_DIG)
MantBits == 53

FZero == [neg |-> FALSE, mant |-> <<>>, exp |-> 0]

\* canonical form: odd mantissa
FCanon(neg, m, e) ==
    IF m = <<>> THEN FZero
    ELSE LET z == LLowZeros(m)
         IN  [neg |-> neg, mant |-> LShr(m, z), exp |-> e + z]

\* round the exact value (-1)^neg * m * 2^e to MantBits bits, ties to even
FRound(neg, m, e) ==
    IF LBitLen(m) <= MantBits THEN FCanon(neg, m, e)
    ELSE LET d      == LBitLen(m) - MantBits
             kept   == LShr(m, d)
             half   == LBit(m, d)
             sticky == \E i \in 1..(d - 1) : LBit(m, i) = 1
             up     == half = 1 /\ (sticky \/ LBit(kept, 1) = 1)
         IN  FCanon(neg, IF up THEN LAdd(kept, <<1>>) ELSE kept, e + d)

FNeg(x) == IF x.mant = <<>> THEN x ELSE [x EXCEPT !.neg = ~x.neg]

FAdd(x, y) ==
    IF x.mant = <<>> THEN y
    ELSE IF y.mant = <<>> THEN x
    ELSE LET e  == Min(x.exp, y.exp)
             mx == LShl(x.mant, x.exp - e)
             my == LShl(y.mant, y.exp - e)
         IN  IF x.neg = y.neg THEN FRound(x.neg, LAdd(mx, my), e)
             ELSE IF LLess(mx, my) THEN FRound(y.neg, LSub(my, mx), e)
             ELSE FRound(x.neg, LSub(mx, my), e)

FSub(x, y) == FAdd(x, FNeg(y))

FMul(x, y) == FRound(x.neg # y.neg, LMul(x.mant, y.mant), x.exp + y.exp)

\* conversion int -> double (exact for 32-bit int)
FFromInt(n) ==
    IF n < 0 THEN FCanon(TRUE, LFromNat(-n), 0) ELSE FCanon(FALSE, LFromNat(n), 0)

\* the double ls * 2^e, ls written in base 2^15, most significant limb first
FLit(ls, e) == FCanon(FALSE, LNorm([i \in 1..Len(ls) |-> ls[Len(ls) + 1 - i]]), e)

(***************************************************************************)
(* printf conversions used by the descriptions                             *)
(***************************************************************************)

Digit(d) == <<"0", "1", "2", "3", "4", "5", "6", "7", "8", "9">>[d + 1]

\* "%d" / "%zu" of a non-negative integer
RECURSIVE IntToStr(_)
IntToStr(n) == IF n < 10 THEN Digit(n) ELSE IntToStr(n \div 10) \o Digit(n % 10)

\* hundredths of |x|, the exact value rounded to an integer, ties to even
Hundredths(x) ==
    LET m == LMulLimb(x.mant, 100)
    IN  IF x.exp >= 0 THEN LToNat(LShl(m, x.exp))
        ELSE LET d      == -x.exp
                 kept   == LShr(m, d)
                 half   == LBit(m, d)
                 sticky == \E i \in 1..(d - 1) : LBit(m, i) = 1
                 up     == half = 1 /\ (sticky \/ LBit(kept, 1) = 1)
             IN  LToNat(IF up THEN LAdd(kept, <<1>>) ELSE kept)

\* "%.2f" of a double
FormatF2(x) ==
    LET h == Hundredths(x)
    IN  (IF x.neg THEN "-" ELSE "") \o IntToStr(h \div 100) \o "."
        \o Digit((h \div 10) % 10) \o Digit(h % 10)

(***************************************************************************)
(* Receiver: Portfolio                                                     *)
(***************************************************************************)

\* positions_[symbol] += delta on an unordered_map<string, int>:
\* operator[] inserts a zero entry for a symbol that has none
MapAdd(positions, symbol, delta) ==
    [k \in (DOMAIN positions) \cup {symbol} |->
        IF k = symbol
        THEN (IF symbol \in DOMAIN positions THEN positions[symbol] ELSE 0) + delta
        ELSE positions[k]]

\* explicit Portfolio(double cash)
NewPortfolio(c) == [positions |-> <<>>, cash |-> c]

buy(p, symbol, qty, price) ==
    [positions |-> MapAdd(p.positions, symbol, qty),
     cash      |-> FSub(p.cash, FMul(FFromInt(qty), price))]

\* sell that credits the cash but keeps the shares
sell_keeps_shares(p, symbol, qty, price) ==
    [positions |-> MapAdd(p.positions, symbol, 0),
     cash      |-> FAdd(p.cash, FMul(FFromInt(qty), price))]

sell(p, symbol, qty, price) ==
    [positions |-> MapAdd(p.positions, symbol, -qty),
     cash      |-> FAdd(p.cash, FMul(FFromInt(qty), price))]

\* reverse_buy that gives the shares back without returning the cash
reverse_buy_no_refund(p, symbol, qty, price) ==
    [positions |-> MapAdd(p.positions, symbol, -qty),
     cash      |-> p.cash]

reverse_buy(p, symbol, qty, price) ==
    [positions |-> MapAdd(p.positions, symbol, -qty),
     cash      |-> FAdd(p.cash, FMul(FFromInt(qty), price))]

\* reverse_sell that credits the proceeds a second time
reverse_sell_credits(p, symbol, qty, price) ==
    [positions |-> MapAdd(p.positions, symbol, qty),
     cash      |-> FAdd(p.cash, FMul(FFromInt(qty), price))]

reverse_sell(p, symbol, qty, price) ==
    [positions |-> MapAdd(p.positions, symbol, qty),
     cash      |-> FSub(p.cash, FMul(FFromInt(qty), price))]

(***************************************************************************)
(* Commands: TradeAction = std::variant<BuyTrade, SellTrade>               *)
(***************************************************************************)

BuyTrade(symbol, quantity, price) ==
    [type |-> "BuyTrade", symbol |-> symbol, quantity |-> quantity, price |-> price]

SellTrade(symbol, quantity, price) ==
    [type |-> "SellTrade", symbol |-> symbol, quantity |-> quantity, price |-> price]

execute_action(action, p) ==
    IF action.type = "BuyTrade"
    THEN buy(p, action.symbol, action.quantity, action.price)
    ELSE sell(p, action.symbol, action.quantity, action.price)

undo_action(action, p) ==
    IF action.type = "BuyTrade"
    THEN reverse_buy(p, action.symbol, action.quantity, action.price)
    ELSE reverse_sell(p, action.symbol, action.quantity, action.price)

action_description(action) ==
    (IF action.type = "BuyTrade" THEN "BUY " ELSE "SELL ")
    \o IntToStr(action.quantity) \o " " \o action.symbol
    \o " @ $" \o FormatF2(action.price)

(***************************************************************************)
(* TradeHistory: a value [executed, undone] of two vectors of TradeAction  *)
(***************************************************************************)

NewHistory == [executed |-> <<>>, undone |-> <<>>]

Back(v) == v[Len(v)]

PopBack(v) == SubSeq(v, 1, Len(v) - 1)

\* execute that drops only the newest undone action (pop_back for clear)
execute_drops_newest(h, action, p) ==
    [ret |-> "void",
     h   |-> [executed |-> Append(h.executed, action),
              undone   |-> IF h.undone = <<>> THEN <<>> ELSE PopBack(h.undone)],
     p   |-> execute_action(action, p)]

\* execute that forgets undone_.clear()
execute_keeps_undone(h, action, p) ==
    [ret |-> "void",
     h   |-> [executed |-> Append(h.executed, action), undone |-> h.undone],
     p   |-> execute_action(action, p)]

\* execute that records the action at the front of executed_
execute_push_front(h, action, p) ==
    [ret |-> "void",
     h   |-> [executed |-> <<action>> \o h.executed, undone |-> <<>>],
     p   |-> execute_action(action, p)]

execute(h, action, p) ==
    [ret |-> "void",
     h   |-> [executed |-> Append(h.executed, action), undone |-> <<>>],
     p   |-> execute_action(action, p)]

\* undo that records the opposite action for redo
undo_records_opposite(h, p) ==
    IF h.executed = <<>> THEN [ret |-> "false", h |-> h, p |-> p]
    ELSE LET action == Back(h.executed)
             other  == [action EXCEPT !.type = IF action.type = "BuyTrade"
                                                THEN "SellTrade" ELSE "BuyTrade"]
         IN  [ret |-> "true",
              h   |-> [executed |-> PopBack(h.executed),
                       undone   |-> Append(h.undone, other)],
              p   |-> undo_action(action, p)]

\* undo that hands the action over with its quantity negated
undo_negates(h, p) ==
    IF h.executed = <<>> THEN [ret |-> "false", h |-> h, p |-> p]
    ELSE LET action == Back(h.executed)
         IN  [ret |-> "true",
              h   |-> [executed |-> PopBack(h.executed),
                       undone   |-> Append(h.undone,
                                           [action EXCEPT !.quantity = -action.quantity])],
              p   |-> undo_action(action, p)]

\* undo that reports success on an empty history
undo_empty_true(h, p) ==
    IF h.executed = <<>> THEN [ret |-> "true", h |-> h, p |-> p]
    ELSE LET action == Back(h.executed)
         IN  [ret |-> "true",
              h   |-> [executed |-> PopBack(h.executed),
                       undone   |-> Append(h.undone, action)],
              p   |-> undo_action(action, p)]

\* undo that drops the action instead of moving it to undone_
undo_drops(h, p) ==
    IF h.executed = <<>> THEN [ret |-> "false", h |-> h, p |-> p]
    ELSE LET action == Back(h.executed)
         IN  [ret |-> "true",
              h   |-> [executed |-> PopBack(h.executed), undone |-> h.undone],
              p   |-> undo_action(action, p)]

undo(h, p) ==
    IF h.executed = <<>> THEN [ret |-> "false", h |-> h, p |-> p]
    ELSE LET action == Back(h.executed)
         IN  [ret |-> "true",
              h   |-> [executed |-> PopBack(h.executed),
                       undone   |-> Append(h.undone, action)],
              p   |-> undo_action(action, p)]

\* redo that takes the oldest undone action instead of the most recent
redo_front(h, p) ==
    IF h.undone = <<>> THEN [ret |-> "false", h |-> h, p |-> p]
    ELSE LET action == Head(h.undone)
         IN  [ret |-> "true",
              h   |-> [executed |-> Append(h.executed, action),
                       undone   |-> Tail(h.undone)],
              p   |-> execute_action(action, p)]

\* redo that re-applies the executed action when there is nothing to redo
redo_empty_repeats(h, p) ==
    IF h.undone = <<>>
    THEN (IF h.executed = <<>> THEN [ret |-> "false", h |-> h, p |-> p]
          ELSE [ret |-> "true",
                h   |-> [executed |-> Append(h.executed, Back(h.executed)),
                         undone   |-> <<>>],
                p   |-> execute_action(Back(h.executed), p)])
    ELSE LET action == Back(h.undone)
         IN  [ret |-> "true",
              h   |-> [executed |-> Append(h.executed, action),
                       undone   |-> PopBack(h.undone)],
              p   |-> execute_action(action, p)]

\* redo that re-applies the action with undo_action
redo_reverses(h, p) ==
    IF h.undone = <<>> THEN [ret |-> "false", h |-> h, p |-> p]
    ELSE LET action == Back(h.undone)
         IN  [ret |-> "true",
              h   |-> [executed |-> Append(h.executed, action),
                       undone   |-> PopBack(h.undone)],
              p   |-> undo_action(action, p)]

redo(h, p) ==
    IF h.undone = <<>> THEN [ret |-> "false", h |-> h, p |-> p]
    ELSE LET action == Back(h.undone)
         IN  [ret |-> "true",
              h   |-> [executed |-> Append(h.executed, action),
                       undone   |-> PopBack(h.undone)],
              p   |-> execute_action(action, p)]

\* print_history that goes on through the undone actions
print_history_all(h) ==
    [i \in 1..(Len(h.executed) + Len(h.undone)) |->
        IntToStr(i) \o ". " \o
        action_description((h.executed \o h.undone)[i])]

\* the lines print_history writes, one per executed action
print_history(h) ==
    [i \in 1..Len(h.executed) |->
        IntToStr(i) \o ". " \o action_description(h.executed[i])]

\* a copy that is another name for the same object
copy_alias(objs, src, dst) == [objs |-> objs, ref |-> src]

\* auto snapshot = history: the implicit copy constructor builds a new
\* object holding copies of both vectors
copy_history(objs, src, dst) ==
    [objs |-> [o \in (DOMAIN objs) \cup {dst} |-> IF o = dst THEN objs[src] ELSE objs[o]],
     ref  |-> dst]

(***************************************************************************)
(* The program: one Portfolio, the TradeHistory object `history`, and      *)
(* later its copy `snapshot`, driven by calls of execute, undo and redo.   *)
(***************************************************************************)

\* most calls made in one run
MaxCalls == 6

\* most calls made in a run in which the copy is taken
MaxSnapCalls == 4

Symbols == {"AAPL", "MSFT"}

\* 185.50 and 19.99 as doubles
Price185_50 == FLit(<<371>>, -1)

Price19_99 == FLit(<<159, 30146, 18350, 2621>>, -48)

\* the trades a caller may submit
Trades ==
    { BuyTrade("AAPL", 100, Price185_50),
      BuyTrade("MSFT", 7, Price19_99), SellTrade("MSFT", 7, Price19_99) }

\* trades submitted to the copy
SnapTrades == { BuyTrade("AAPL", 100, Price185_50), SellTrade("MSFT", 7, Price19_99) }

\* 1000.0 as a double
InitialCash == { FLit(<<1000>>, 0) }

VARIABLES
    objs,       \* the TradeHistory objects alive, by name
    snapshot,   \* the object the name `snapshot` denotes, "none" before the copy
    portfolio,  \* the Portfolio
    log         \* the calls made so far, each with the state it started from

vars == <<objs, snapshot, portfolio, log>>

NoAction == [type |-> "none"]

Here == [objs |-> objs, snapshot |-> snapshot, portfolio |-> portfolio]

\* calls a run may make: a run with a copy is cut shorter
Budget == IF snapshot = "none" THEN MaxCalls ELSE Min(MaxCalls, MaxSnapCalls)

Init ==
    /\ objs = [o \in {"history"} |-> NewHistory]
    /\ snapshot = "none"
    /\ portfolio \in { NewPortfolio(c) : c \in InitialCash }
    /\ log = <<>>

\* a call of op on object o that produced r
Called(o, op, action, r) ==
    /\ objs' = [objs EXCEPT ![o] = r.h]
    /\ portfolio' = r.p
    /\ log' = Append(log, [op |-> op, on |-> o, action |-> action,
                           ret |-> r.ret, pre |-> Here])
    /\ UNCHANGED snapshot

Execute(action) ==
    /\ Len(log) < Budget
    /\ Called("history", "execute", action,
              execute(objs["history"], action, portfolio))

Undo ==
    /\ Len(log) < Budget
    /\ Called("history", "undo", NoAction, undo(objs["history"], portfolio))

Redo ==
    /\ Len(log) < Budget
    /\ Called("history", "redo", NoAction, redo(objs["history"], portfolio))

\* auto snapshot = history;
Snapshot ==
    /\ Len(log) < Min(MaxCalls, MaxSnapCalls)
    /\ snapshot = "none"
    /\ LET c == copy_history(objs, "history", "snapshot")
       IN  /\ objs' = c.objs
           /\ snapshot' = c.ref
    /\ log' = Append(log, [op |-> "snapshot", on |-> "history", action |-> NoAction,
                           ret |-> "void", pre |-> Here])
    /\ UNCHANGED portfolio

SnapExecute(action) ==
    /\ Len(log) < Budget
    /\ snapshot # "none"
    /\ Called(snapshot, "execute", action, execute(objs[snapshot], action, portfolio))

SnapUndo ==
    /\ Len(log) < Budget
    /\ snapshot # "none"
    /\ Called(snapshot, "undo", NoAction, undo(objs[snapshot], portfolio))

SnapRedo ==
    /\ Len(log) < Budget
    /\ snapshot # "none"
    /\ Called(snapshot, "redo", NoAction, redo(objs[snapshot], portfolio))

Next ==
    \/ \E action \in Trades : Execute(action)
    \/ Undo
    \/ Redo

Spec == Init /\ [][Next]_vars

NextSnap ==
    \/ \E action \in Trades : Execute(action)
    \/ Undo
    \/ Redo
    \/ Snapshot
    \/ \E action \in SnapTrades : SnapExecute(action)
    \/ SnapUndo
    \/ SnapRedo

SpecSnap == Init /\ [][NextSnap]_vars

(***************************************************************************)
(* The demo run of main(): a Portfolio of 1,000,000.00 and the three       *)
(* trades of the demo, submitted in any order with undo and redo between.  *)
(***************************************************************************)

\* 140.25 and 420.00 as doubles
Price140_25 == FLit(<<561>>, -2)

Price420_00 == FLit(<<420>>, 0)

\* 1000000.0 as a double
DemoCash == FLit(<<30, 16960>>, 0)

DemoTrades ==
    { BuyTrade("AAPL", 100, Price185_50),
      BuyTrade("GOOGL", 50, Price140_25),
      SellTrade("MSFT", 75, Price420_00) }

InitDemo ==
    /\ objs = [o \in {"history"} |-> NewHistory]
    /\ snapshot = "none"
    /\ portfolio = NewPortfolio(DemoCash)
    /\ log = <<>>

NextDemo ==
    \/ \E action \in DemoTrades : Execute(action)
    \/ Undo
    \/ Redo

SpecDemo == InitDemo /\ [][NextDemo]_vars

(***************************************************************************)
(* Runs in which the history is also listed                                *)
(***************************************************************************)

\* most calls made in a run that lists the history
MaxListCalls == 5

\* history.print_history(); a const member: it returns the state it was given
PrintHistory ==
    /\ Len(log) < Budget
    /\ Called("history", "print_history", NoAction,
              [ret |-> print_history(objs["history"]),
               h   |-> objs["history"],
               p   |-> portfolio])

NextList ==
    /\ Len(log) < MaxListCalls
    /\ \/ \E action \in Trades : Execute(action)
       \/ Undo
       \/ Redo
       \/ PrintHistory

SpecList == Init /\ [][NextList]_vars

(***************************************************************************)
(* Runs in which a caller applies and inverts actions on the Portfolio     *)
(* directly, with no history                                               *)
(***************************************************************************)

\* most calls made in such a run
MaxApplyCalls == 4

\* a call of execute_action or undo_action that left the Portfolio q
Applied(op, action, q) ==
    /\ Len(log) < MaxApplyCalls
    /\ portfolio' = q
    /\ log' = Append(log, [op |-> op, on |-> "portfolio", action |-> action,
                           ret |-> "void", pre |-> Here])
    /\ UNCHANGED <<objs, snapshot>>

\* execute_action(action, portfolio);
ExecuteAction(action) ==
    Applied("execute_action", action, execute_action(action, portfolio))

\* undo_action(action, portfolio);
UndoAction(action) ==
    Applied("undo_action", action, undo_action(action, portfolio))

NextApply ==
    \/ \E action \in Trades : ExecuteAction(action)
    \/ \E action \in Trades : UndoAction(action)

SpecApply == Init /\ [][NextApply]_vars

(***************************************************************************)
(* The C implementation (command.c).  Strings are sequences of characters. *)
(* A call whose behaviour is undefined has several outcomes, so every      *)
(* function below yields the set of its outcomes; the field oob of a       *)
(* structure records that a store fell outside one of its arrays.          *)
(***************************************************************************)

MAX_POSITIONS == 32

MAX_HISTORY == 64

\* strncpy(dst, src, 15); dst[15] = '\0';
strncpy15(src) == SubSeq(src, 1, Min(Len(src), 15))

\* memset(p, 0, sizeof(*p)); p->cash = cash;
portfolio_init(cash) ==
    [symbols    |-> [i \in 1..MAX_POSITIONS |-> <<>>],
     quantities |-> [i \in 1..MAX_POSITIONS |-> 0],
     count      |-> 0,
     cash       |-> cash,
     oob        |-> FALSE]

\* index (from 0) of the first slot below count holding symbol, or -1
portfolio_find(p, symbol) ==
    IF \E i \in 0..(p.count - 1) : p.symbols[i + 1] = symbol
    THEN CHOOSE i \in 0..(p.count - 1) :
            /\ p.symbols[i + 1] = symbol
            /\ \A j \in 0..(i - 1) : p.symbols[j + 1] # symbol
    ELSE -1

\* the characters of the symbols used, in the order of their codes
Letters == <<"A", "B", "C", "D", "E", "F", "G", "H", "I", "J", "K", "L", "M",
             "N", "O", "P", "Q", "R", "S", "T", "U", "V", "W", "X", "Y", "Z">>

Digits == <<"0", "1", "2", "3", "4", "5", "6", "7", "8", "9">>

\* the value of a char of a symbol
Ascii(ch) ==
    IF ch = "." THEN 46
    ELSE IF \E i \in 1..10 : Digits[i] = ch
         THEN 47 + (CHOOSE i \in 1..10 : Digits[i] = ch)
         ELSE 64 + (CHOOSE i \in 1..26 : Letters[i] = ch)

\* byte i (from 0) of the 16 that strncpy(dst, symbol, 15); dst[15] = '\0'
\* stores
Byte(symbol, i) ==
    IF i < Len(strncpy15(symbol)) THEN Ascii(symbol[i + 1]) ELSE 0

\* the int read from bytes 4w .. 4w+3 of such a buffer
Word(symbol, w) ==
    Byte(symbol, 4 * w) + 256 * Byte(symbol, 4 * w + 1)
      + 65536 * Byte(symbol, 4 * w + 2) + 16777216 * Byte(symbol, 4 * w + 3)

\* the outcomes of portfolio_adjust; with count = MAX_POSITIONS and a new
\* symbol the stores to symbols[32] and quantities[32] fall outside the
\* arrays: where the members follow one another, symbols[32] is
\* quantities[0..3] and quantities[32] is count; elsewhere the stores miss
\* the structure
portfolio_adjust(p, symbol, qty_delta, cash_delta) ==
    LET found == portfolio_find(p, symbol)
        idx   == IF found < 0 THEN p.count ELSE found
    IN  IF idx < MAX_POSITIONS
        THEN LET q == IF found < 0
                      THEN [p EXCEPT !.count = p.count + 1,
                                     !.symbols[idx + 1] = strncpy15(symbol),
                                     !.quantities[idx + 1] = 0]
                      ELSE p
             IN  { [q EXCEPT !.quantities[idx + 1] = q.quantities[idx + 1] + qty_delta,
                             !.cash = FAdd(q.cash, cash_delta)] }
        ELSE { [p EXCEPT !.quantities =
                             [i \in 1..MAX_POSITIONS |->
                                 IF i <= 4 THEN Word(symbol, i - 1)
                                 ELSE p.quantities[i]],
                         !.count = qty_delta,
                         !.cash = FAdd(p.cash, cash_delta),
                         !.oob = TRUE],
               [p EXCEPT !.count = p.count + 1,
                         !.cash = FAdd(p.cash, cash_delta),
                         !.oob = TRUE] }

portfolio_buy(p, symbol, qty, price) ==
    portfolio_adjust(p, symbol, qty, FNeg(FMul(FFromInt(qty), price)))

portfolio_sell(p, symbol, qty, price) ==
    portfolio_adjust(p, symbol, -qty, FMul(FFromInt(qty), price))

portfolio_reverse_buy(p, symbol, qty, price) ==
    portfolio_adjust(p, symbol, -qty, FMul(FFromInt(qty), price))

portfolio_reverse_sell(p, symbol, qty, price) ==
    portfolio_adjust(p, symbol, qty, FNeg(FMul(FFromInt(qty), price)))

cmd_buy(symbol, qty, price) ==
    [type |-> "CMD_BUY", symbol |-> strncpy15(symbol), quantity |-> qty, price |-> price]

cmd_sell(symbol, qty, price) ==
    [type |-> "CMD_SELL", symbol |-> strncpy15(symbol), quantity |-> qty, price |-> price]

\* the value of the enumerator
TradeCommandType(type) == IF type = "CMD_BUY" THEN 0 ELSE 1

cmd_execute(cmd, p) ==
    IF cmd.type = "CMD_BUY"
    THEN portfolio_buy(p, cmd.symbol, cmd.quantity, cmd.price)
    ELSE portfolio_sell(p, cmd.symbol, cmd.quantity, cmd.price)

cmd_undo(cmd, p) ==
    IF cmd.type = "CMD_BUY"
    THEN portfolio_reverse_buy(p, cmd.symbol, cmd.quantity, cmd.price)
    ELSE portfolio_reverse_sell(p, cmd.symbol, cmd.quantity, cmd.price)

\* a slot never written
Indeterminate == [type |-> "indeterminate"]

\* history_init sets the two counts and leaves the arrays as they are
history_init ==
    [executed   |-> [i \in 1..MAX_HISTORY |-> Indeterminate],
     exec_count |-> 0,
     undone     |-> [i \in 1..MAX_HISTORY |-> Indeterminate],
     undo_count |-> 0,
     oob        |-> FALSE]

\* the outcomes of history_execute.  With exec_count = MAX_HISTORY the store
\* goes to executed[64], outside the array: in the usual layout onto
\* exec_count itself (and onto the dead slot undone[0]), the increment and
\* the store being unsequenced, so that exec_count ends as the command's
\* type or as 65.
history_execute(h, cmd, p) ==
    IF h.exec_count < MAX_HISTORY
    THEN { [ret |-> "void",
            h   |-> [h EXCEPT !.executed[h.exec_count + 1] = cmd,
                              !.exec_count = h.exec_count + 1,
                              !.undo_count = 0],
            p   |-> q] : q \in cmd_execute(cmd, p) }
    ELSE { [ret |-> "void",
            h   |-> [h EXCEPT !.exec_count = c, !.undo_count = 0, !.oob = TRUE],
            p   |-> q] :
              q \in cmd_execute(cmd, p),
              c \in {TradeCommandType(cmd.type), h.exec_count + 1} }

\* the outcomes of history_undo
history_undo(h, p) ==
    IF h.exec_count = 0 THEN { [ret |-> 0, h |-> h, p |-> p] }
    ELSE LET cmd == h.executed[h.exec_count]
         IN  IF h.undo_count < MAX_HISTORY
             THEN { [ret |-> 1,
                     h   |-> [h EXCEPT !.exec_count = h.exec_count - 1,
                                       !.undone[h.undo_count + 1] = cmd,
                                       !.undo_count = h.undo_count + 1],
                     p   |-> q] : q \in cmd_undo(cmd, p) }
             ELSE { [ret |-> 1,
                     h   |-> [h EXCEPT !.exec_count = h.exec_count - 1,
                                       !.undo_count = h.undo_count + 1,
                                       !.oob = TRUE],
                     p   |-> q] : q \in cmd_undo(cmd, p) }

\* the outcomes of history_redo
history_redo(h, p) ==
    IF h.undo_count = 0 THEN { [ret |-> 0, h |-> h, p |-> p] }
    ELSE LET cmd == h.undone[h.undo_count]
         IN  IF h.exec_count < MAX_HISTORY
             THEN { [ret |-> 1,
                     h   |-> [h EXCEPT !.undo_count = h.undo_count - 1,
                                       !.executed[h.exec_count + 1] = cmd,
                                       !.exec_count = h.exec_count + 1],
                     p   |-> q] : q \in cmd_execute(cmd, p) }
             ELSE { [ret |-> 1,
                     h   |-> [h EXCEPT !.undo_count = h.undo_count - 1,
                                       !.exec_count = c,
                                       !.oob = TRUE],
                     p   |-> q] :
                       q \in cmd_execute(cmd, p),
                       c \in {TradeCommandType(cmd.type), h.exec_count + 1} }

\* most calls made in one run of the C program
MaxCCalls == 4

AAPL == <<"A", "A", "P", "L">>

MSFT == <<"M", "S", "F", "T">>

\* the commands a caller may submit
CCommands == { cmd_buy(AAPL, 100, Price185_50), cmd_sell(MSFT, 7, Price19_99) }

\* the state reached from [h, p] by calling history_execute(&h, cmd, &p)
\* until exec_count is n
RECURSIVE Filled(_, _, _)
Filled(n, cmd, s) ==
    IF s.h.exec_count = n THEN s
    ELSE LET r == CHOOSE r \in history_execute(s.h, cmd, s.p) : TRUE
         IN  Filled(n, cmd, [h |-> r.h, p |-> r.p])

\* the histories a run starts from: a new one, or one that a caller has
\* already filled up to its last free slot
InitC ==
    /\ \E n \in {0, MAX_HISTORY - 1} :
         LET s == Filled(n, cmd_buy(AAPL, 100, Price185_50),
                         [h |-> history_init, p |-> portfolio_init(DemoCash)])
         IN  /\ objs = [o \in {"history"} |-> s.h]
             /\ portfolio = s.p
    /\ snapshot = "none"
    /\ log = <<>>

\* a call on the C history with one of its outcomes
CCalled(op, cmd, outcomes) ==
    /\ Len(log) < MaxCCalls
    /\ ~objs["history"].oob
    /\ ~portfolio.oob
    /\ \E r \in outcomes : Called("history", op, cmd, r)

HistoryExecute(cmd) ==
    CCalled("execute", cmd, history_execute(objs["history"], cmd, portfolio))

HistoryUndo == CCalled("undo", NoAction, history_undo(objs["history"], portfolio))

HistoryRedo == CCalled("redo", NoAction, history_redo(objs["history"], portfolio))

NextC ==
    \/ \E cmd \in CCommands : HistoryExecute(cmd)
    \/ HistoryUndo
    \/ HistoryRedo

SpecC == InitC /\ [][NextC]_vars

(***************************************************************************)
(* Type-erased commands: Command over MarketBuy and LimitSell in C++,      *)
(* ErasedCommand with a table of function pointers in C                    *)
(***************************************************************************)

MarketBuy(symbol, quantity, price) ==
    [type |-> "MarketBuy", symbol |-> symbol, quantity |-> quantity, price |-> price]

LimitSell(symbol, quantity, limit_price) ==
    [type |-> "LimitSell", symbol |-> symbol, quantity |-> quantity,
     limit_price |-> limit_price]

MarketBuy_execute(cmd, p) == buy(p, cmd.symbol, cmd.quantity, cmd.price)

MarketBuy_undo(cmd, p) == reverse_buy(p, cmd.symbol, cmd.quantity, cmd.price)

LimitSell_execute(cmd, p) == sell(p, cmd.symbol, cmd.quantity, cmd.limit_price)

\* LimitSell::undo that reverses a buy
LimitSell_undo_as_buy(cmd, p) == reverse_buy(p, cmd.symbol, cmd.quantity, cmd.limit_price)

LimitSell_undo(cmd, p) == reverse_sell(p, cmd.symbol, cmd.quantity, cmd.limit_price)

\* Command(T cmd): pimpl_ owns a Model<T> holding the command
Command(cmd) == [pimpl_ |-> cmd]

\* Command::execute: the virtual call reaches Model<T>::execute
Command_execute(c, p) ==
    IF c.pimpl_.type = "MarketBuy" THEN MarketBuy_execute(c.pimpl_, p)
    ELSE LimitSell_execute(c.pimpl_, p)

\* Command::undo: the virtual call reaches Model<T>::undo
Command_undo(c, p) ==
    IF c.pimpl_.type = "MarketBuy" THEN MarketBuy_undo(c.pimpl_, p)
    ELSE LimitSell_undo(c.pimpl_, p)

market_buy_exec(self, p) == portfolio_buy(p, self.symbol, self.quantity, self.price)

market_buy_undo(self, p) == portfolio_reverse_buy(p, self.symbol, self.quantity, self.price)

limit_sell_exec(self, p) == portfolio_sell(p, self.symbol, self.quantity, self.limit_price)

limit_sell_undo(self, p) ==
    portfolio_reverse_sell(p, self.symbol, self.quantity, self.limit_price)

erased_market_buy(symbol, qty, price) ==
    [execute |-> "market_buy_exec", undo |-> "market_buy_undo",
     describe |-> "market_buy_describe",
     storage |-> [symbol |-> strncpy15(symbol), quantity |-> qty, price |-> price]]

erased_limit_sell(symbol, qty, price) ==
    [execute |-> "limit_sell_exec", undo |-> "limit_sell_undo",
     describe |-> "limit_sell_describe",
     storage |-> [symbol |-> strncpy15(symbol), quantity |-> qty, limit_price |-> price]]

\* a call through a function pointer of the table: fn(self, p)
CallPointer(fn, self, p) ==
    CASE fn = "market_buy_exec" -> market_buy_exec(self, p)
      [] fn = "market_buy_undo" -> market_buy_undo(self, p)
      [] fn = "limit_sell_exec" -> limit_sell_exec(self, p)
      [] fn = "limit_sell_undo" -> limit_sell_undo(self, p)

\* most calls made on type-erased commands in one run
MaxErasedCalls == 4

\* 175.00 and 890.50 as doubles
Price175_00 == FLit(<<175>>, 0)

Price890_50 == FLit(<<1781>>, -1)

\* 500000.0 as a double
ErasedCash == FLit(<<15, 8480>>, 0)

\* the orders commands are built from: the same fields go to the C++
\* constructor and to the C constructor
Orders ==
    { [kind |-> "MarketBuy", symbol |-> "TSLA", chars |-> <<"T", "S", "L", "A">>,
       quantity |-> 200, price |-> Price175_00],
      [kind |-> "LimitSell", symbol |-> "NVDA", chars |-> <<"N", "V", "D", "A">>,
       quantity |-> 30, price |-> Price890_50],
      [kind |-> "LimitSell", symbol |-> "TSLA", chars |-> <<"T", "S", "L", "A">>,
       quantity |-> 7, price |-> Price19_99] }

\* commands.emplace_back(MarketBuy{...}) / commands.emplace_back(LimitSell{...})
CommandOf(o) ==
    IF o.kind = "MarketBuy" THEN Command(MarketBuy(o.symbol, o.quantity, o.price))
    ELSE Command(LimitSell(o.symbol, o.quantity, o.price))

\* commands[i] = erased_market_buy(...) / erased_limit_sell(...)
ErasedCommandOf(o) ==
    IF o.kind = "MarketBuy" THEN erased_market_buy(o.chars, o.quantity, o.price)
    ELSE erased_limit_sell(o.chars, o.quantity, o.price)

\* portfolio2 of the C++ program and portfolio2 of the C program
InitErased ==
    /\ objs = [o \in {"portfolio2", "c_portfolio2"} |->
                 IF o = "portfolio2" THEN NewPortfolio(ErasedCash)
                 ELSE portfolio_init(ErasedCash)]
    /\ snapshot = "none"
    /\ portfolio = NewPortfolio(DemoCash)
    /\ log = <<>>

\* both programs make the call op on the command built from the order o
ErasedCalled(op, o, p2, c2s) ==
    /\ Len(log) < MaxErasedCalls
    /\ ~objs["c_portfolio2"].oob
    /\ \E c2 \in c2s :
          objs' = [objs EXCEPT !["portfolio2"] = p2, !["c_portfolio2"] = c2]
    /\ log' = Append(log, [op |-> op, on |-> "portfolio2", action |-> o,
                           ret |-> "void", pre |-> Here])
    /\ UNCHANGED <<snapshot, portfolio>>

\* cmd.execute(portfolio2);  commands[i].execute(commands[i].storage, &portfolio2);
CommandExecute(o) ==
    ErasedCalled("execute", o,
                 Command_execute(CommandOf(o), objs["portfolio2"]),
                 CallPointer(ErasedCommandOf(o).execute, ErasedCommandOf(o).storage,
                             objs["c_portfolio2"]))

\* it->undo(portfolio2);  commands[i].undo(commands[i].storage, &portfolio2);
CommandUndo(o) ==
    ErasedCalled("undo", o,
                 Command_undo(CommandOf(o), objs["portfolio2"]),
                 CallPointer(ErasedCommandOf(o).undo, ErasedCommandOf(o).storage,
                             objs["c_portfolio2"]))

NextErased ==
    \/ \E o \in Orders : CommandExecute(o)
    \/ \E o \in Orders : CommandUndo(o)

SpecErased == InitErased /\ [][NextErased]_vars

(***************************************************************************)
(* The C calls step by step: a call is entered, runs the search loop of    *)
(* portfolio_find one iteration at a time, then completes and returns.     *)
(* The object `frame` is the activation of the running call.               *)
(***************************************************************************)

\* most calls made in one stepwise run
MaxStepCalls == 4

GOOGL == <<"G", "O", "O", "G", "L">>

StepCommands ==
    { cmd_buy(AAPL, 100, Price185_50), cmd_buy(GOOGL, 50, Price140_25),
      cmd_sell(MSFT, 7, Price19_99) }

Idle == [pc |-> "idle", op |-> "none", cmd |-> NoAction, i |-> 0]

\* a loop that looks for the symbol without the test i < p->count
find_continues_unbounded(p, symbol, i) == p.symbols[i + 1] # symbol

\* for (int i = 0; i < p->count; ++i): the loop goes round once more
\* when slot i is below count and holds another symbol
find_continues(p, symbol, i) == i < p.count /\ p.symbols[i + 1] # symbol

\* ++i
find_next(i) == i + 1

InitSteps ==
    /\ objs = [o \in {"history", "frame"} |->
                 IF o = "history" THEN history_init ELSE Idle]
    /\ snapshot = "none"
    /\ portfolio = portfolio_init(DemoCash)
    /\ log = <<>>

\* the caller may make a call: none is running and the run is not over
MayCall ==
    /\ objs["frame"].pc = "idle"
    /\ Len(log) < MaxStepCalls
    /\ ~objs["history"].oob
    /\ ~portfolio.oob

\* a call that returns [h, p, ret] without searching the Portfolio
ReturnsAtOnce(op, r) ==
    /\ objs' = [objs EXCEPT !["history"] = r.h]
    /\ portfolio' = r.p
    /\ log' = Append(log, [op |-> op, on |-> "history", action |-> NoAction,
                           ret |-> r.ret, pre |-> Here])
    /\ UNCHANGED snapshot

\* the call enters portfolio_find for the symbol of cmd
Enters(op, cmd) ==
    /\ objs' = [objs EXCEPT !["frame"] = [pc |-> "find", op |-> op, cmd |-> cmd, i |-> 0]]
    /\ UNCHANGED <<snapshot, portfolio, log>>

\* history_execute(&history, cmd, &portfolio) is called
EnterExecute(cmd) ==
    /\ MayCall
    /\ Enters("execute", cmd)

\* history_undo(&history, &portfolio) is called
EnterUndo ==
    /\ MayCall
    /\ LET h == objs["history"]
       IN  IF h.exec_count = 0
           THEN \E r \in history_undo(h, portfolio) : ReturnsAtOnce("undo", r)
           ELSE Enters("undo", h.executed[h.exec_count])

\* history_redo(&history, &portfolio) is called
EnterRedo ==
    /\ MayCall
    /\ LET h == objs["history"]
       IN  IF h.undo_count = 0
           THEN \E r \in history_redo(h, portfolio) : ReturnsAtOnce("redo", r)
           ELSE Enters("redo", h.undone[h.undo_count])

\* TradeHistory snapshot = history;
CopyStruct ==
    /\ MayCall
    /\ snapshot = "none"
    /\ LET c == copy_history(objs, "history", "snapshot")
       IN  /\ objs' = c.objs
           /\ snapshot' = c.ref
    /\ log' = Append(log, [op |-> "snapshot", on |-> "history", action |-> NoAction,
                           ret |-> "void", pre |-> Here])
    /\ UNCHANGED portfolio

\* one test of the loop condition of portfolio_find: another iteration,
\* or the loop is left
FindStep ==
    LET f == objs["frame"]
    IN  /\ f.pc = "find"
        /\ objs' = [objs EXCEPT !["frame"] =
                       IF find_continues(portfolio, f.cmd.symbol, f.i)
                       THEN [f EXCEPT !.i = find_next(f.i)]
                       ELSE [f EXCEPT !.pc = "finish"]]
        /\ UNCHANGED <<snapshot, portfolio, log>>

\* the rest of the call: the Portfolio is adjusted, the command is stored
\* and the call returns
Finish ==
    LET f == objs["frame"]
        h == objs["history"]
    IN  /\ f.pc = "finish"
        /\ \E r \in (IF f.op = "execute" THEN history_execute(h, f.cmd, portfolio)
                     ELSE IF f.op = "undo" THEN history_undo(h, portfolio)
                     ELSE history_redo(h, portfolio)) :
              /\ objs' = [objs EXCEPT !["history"] = r.h,
                                      !["frame"] = [f EXCEPT !.pc = "idle"]]
              /\ portfolio' = r.p
              /\ log' = Append(log, [op |-> f.op, on |-> "history", action |-> f.cmd,
                                     ret |-> r.ret, pre |-> Here])
        /\ UNCHANGED snapshot

NextSteps ==
    \/ \E cmd \in StepCommands : EnterExecute(cmd)
    \/ EnterUndo
    \/ EnterRedo
    \/ CopyStruct
    \/ FindStep
    \/ Finish

SpecSteps == InitSteps /\ [][NextSteps]_vars

(***************************************************************************)
(* Several callers on one history and one Portfolio, each call made        *)
(* inside one mutual-exclusion section.  The steps of a call are the       *)
(* statements of TradeHistory::execute, undo and redo; the lock is the     *)
(* discipline the specification asks of concurrent callers.                *)
(***************************************************************************)

\* most calls made in one run of the concurrent callers
MaxLockedCalls == 3

Callers == {"caller1", "caller2"}

\* a caller outside the section
Outside == [pc |-> "outside", op |-> "none", action |-> NoAction, pre |-> NoAction]

InitLocked ==
    /\ objs = [o \in {"history", "lock"} \cup Callers |->
                 IF o = "history" THEN NewHistory
                 ELSE IF o = "lock" THEN "free"
                 ELSE Outside]
    /\ snapshot = "none"
    /\ portfolio \in { NewPortfolio(c) : c \in InitialCash }
    /\ log = <<>>

\* the calls entered so far
Entered == Len(log) + Cardinality({ c \in Callers : objs[c].pc # "outside" })

\* caller c takes the lock and enters the call op
Acquire(c, op, action) ==
    /\ objs["lock"] = "free"
    /\ Entered < MaxLockedCalls
    /\ objs' = [objs EXCEPT !["lock"] = c,
                            ![c] = [pc |-> op, op |-> op, action |-> action, pre |-> Here]]
    /\ UNCHANGED <<snapshot, portfolio, log>>

\* caller c returns ret from its call and gives the lock back
Release(c, ret, h) ==
    /\ objs' = [objs EXCEPT !["lock"] = "free", !["history"] = h, ![c] = Outside]
    /\ log' = Append(log, [op |-> objs[c].op, on |-> "history",
                           action |-> IF objs[c].op = "execute" THEN objs[c].action
                                      ELSE NoAction,
                           ret |-> ret, pre |-> objs[c].pre])
    /\ UNCHANGED <<snapshot, portfolio>>

\* caller c goes on to the next statement of its call
Goes(c, pc, action, h) ==
    /\ objs' = [objs EXCEPT !["history"] = h, ![c].pc = pc, ![c].action = action]
    /\ UNCHANGED <<snapshot, log>>

\* execute_action(action, p);
ExecuteApply(c) ==
    /\ objs[c].pc = "execute"
    /\ portfolio' = execute_action(objs[c].action, portfolio)
    /\ Goes(c, "execute_push", objs[c].action, objs["history"])

\* executed_.push_back(std::move(action));
ExecutePush(c) ==
    /\ objs[c].pc = "execute_push"
    /\ UNCHANGED portfolio
    /\ Goes(c, "execute_clear", objs[c].action,
            [objs["history"] EXCEPT !.executed = Append(@, objs[c].action)])

\* undone_.clear();
ExecuteClear(c) ==
    /\ objs[c].pc = "execute_clear"
    /\ Release(c, "void", [objs["history"] EXCEPT !.undone = <<>>])

\* if (executed_.empty()) return false;
\* auto action = std::move(executed_.back()); executed_.pop_back();
UndoPop(c) ==
    /\ objs[c].pc = "undo"
    /\ IF objs["history"].executed = <<>>
       THEN Release(c, "false", objs["history"])
       ELSE /\ Goes(c, "undo_apply", Back(objs["history"].executed),
                    [objs["history"] EXCEPT !.executed = PopBack(@)])
            /\ UNCHANGED portfolio

\* undo_action(action, p);
UndoApply(c) ==
    /\ objs[c].pc = "undo_apply"
    /\ portfolio' = undo_action(objs[c].action, portfolio)
    /\ Goes(c, "undo_push", objs[c].action, objs["history"])

\* undone_.push_back(std::move(action)); return true;
UndoPush(c) ==
    /\ objs[c].pc = "undo_push"
    /\ Release(c, "true", [objs["history"] EXCEPT !.undone = Append(@, objs[c].action)])

\* if (undone_.empty()) return false;
\* auto action = std::move(undone_.back()); undone_.pop_back();
RedoPop(c) ==
    /\ objs[c].pc = "redo"
    /\ IF objs["history"].undone = <<>>
       THEN Release(c, "false", objs["history"])
       ELSE /\ Goes(c, "redo_apply", Back(objs["history"].undone),
                    [objs["history"] EXCEPT !.undone = PopBack(@)])
            /\ UNCHANGED portfolio

\* execute_action(action, p);
RedoApply(c) ==
    /\ objs[c].pc = "redo_apply"
    /\ portfolio' = execute_action(objs[c].action, portfolio)
    /\ Goes(c, "redo_push", objs[c].action, objs["history"])

\* executed_.push_back(std::move(action)); return true;
RedoPush(c) ==
    /\ objs[c].pc = "redo_push"
    /\ Release(c, "true", [objs["history"] EXCEPT !.executed = Append(@, objs[c].action)])

NextLocked ==
    \E c \in Callers :
        \/ \E action \in Trades : Acquire(c, "execute", action)
        \/ Acquire(c, "undo", NoAction)
        \/ Acquire(c, "redo", NoAction)
        \/ ExecuteApply(c)
        \/ ExecutePush(c)
        \/ ExecuteClear(c)
        \/ UndoPop(c)
        \/ UndoApply(c)
        \/ UndoPush(c)
        \/ RedoPop(c)
        \/ RedoApply(c)
        \/ RedoPush(c)

SpecLocked == InitLocked /\ [][NextLocked]_vars

(***************************************************************************)
(* The classic implementation: commands bound to their Portfolio at        *)
(* construction, CommandHistory over vectors of owning pointers.  A        *)
(* reference is the name of the object in the store.                       *)
(***************************************************************************)

\* Portfolio::cancel
cancel(p, symbol, qty, price, was_buy) ==
    IF was_buy
    THEN [positions |-> MapAdd(p.positions, symbol, -qty),
          cash      |-> FAdd(p.cash, FMul(FFromInt(qty), price))]
    ELSE [positions |-> MapAdd(p.positions, symbol, qty),
          cash      |-> FSub(p.cash, FMul(FFromInt(qty), price))]

BuyCommand(p, sym, qty, price) ==
    [type |-> "BuyCommand", portfolio_ |-> p, symbol_ |-> sym,
     quantity_ |-> qty, price_ |-> price]

SellCommand(p, sym, qty, price) ==
    [type |-> "SellCommand", portfolio_ |-> p, symbol_ |-> sym,
     quantity_ |-> qty, price_ |-> price]

\* cmd->execute(): BuyCommand::execute or SellCommand::execute
TradeCommand_execute(cmd, store) ==
    [store EXCEPT ![cmd.portfolio_] =
        IF cmd.type = "BuyCommand"
        THEN buy(store[cmd.portfolio_], cmd.symbol_, cmd.quantity_, cmd.price_)
        ELSE sell(store[cmd.portfolio_], cmd.symbol_, cmd.quantity_, cmd.price_)]

\* cmd->undo(): BuyCommand::undo or SellCommand::undo
TradeCommand_undo(cmd, store) ==
    [store EXCEPT ![cmd.portfolio_] =
        cancel(store[cmd.portfolio_], cmd.symbol_, cmd.quantity_, cmd.price_,
               cmd.type = "BuyCommand")]

\* CommandHistory::execute on the history named h
CommandHistory_execute(store, h, cmd) ==
    LET s == TradeCommand_execute(cmd, store)
    IN  [ret   |-> "void",
         store |-> [s EXCEPT ![h] = [executed |-> Append(s[h].executed, cmd),
                                     undone   |-> <<>>]]]

\* CommandHistory::undo
CommandHistory_undo(store, h) ==
    IF store[h].executed = <<>> THEN [ret |-> "false", store |-> store]
    ELSE LET cmd == Back(store[h].executed)
             s   == TradeCommand_undo(cmd, store)
         IN  [ret   |-> "true",
              store |-> [s EXCEPT ![h] = [executed |-> PopBack(s[h].executed),
                                          undone   |-> Append(s[h].undone, cmd)]]]

\* CommandHistory::redo
CommandHistory_redo(store, h) ==
    IF store[h].undone = <<>> THEN [ret |-> "false", store |-> store]
    ELSE LET cmd == Back(store[h].undone)
             s   == TradeCommand_execute(cmd, store)
         IN  [ret   |-> "true",
              store |-> [s EXCEPT ![h] = [executed |-> Append(s[h].executed, cmd),
                                          undone   |-> PopBack(s[h].undone)]]]

(***************************************************************************)
(* The three programs side by side: the classic, the modern and the C      *)
(* program receive the same calls with the same arguments.                 *)
(***************************************************************************)

\* most calls made on the three programs in one run
MaxThreeCalls == 3

\* std::string(s) of a C string
RECURSIVE Join(_)
Join(chars) == IF chars = <<>> THEN "" ELSE Head(chars) \o Join(Tail(chars))

\* a symbol of 18 characters
BRK_B_CLASS_B_NYSE ==
    <<"B", "R", "K", ".", "B", ".", "C", "L", "A", "S", "S", ".", "B", ".",
      "N", "Y", "S", "E">>

\* the trades a caller may submit: kind, symbol, quantity, price
ThreeOrders ==
    { [kind |-> "Buy", chars |-> AAPL, quantity |-> 100, price |-> Price185_50],
      [kind |-> "Sell", chars |-> MSFT, quantity |-> 7, price |-> Price19_99],
      [kind |-> "Buy", chars |-> BRK_B_CLASS_B_NYSE, quantity |-> 1,
       price |-> Price420_00] }

\* std::make_unique<BuyCommand>(portfolio, ...) / <SellCommand>
ClassicOf(o) ==
    IF o.kind = "Buy"
    THEN BuyCommand("classic_portfolio", Join(o.chars), o.quantity, o.price)
    ELSE SellCommand("classic_portfolio", Join(o.chars), o.quantity, o.price)

\* BuyTrade{...} / SellTrade{...}
ModernOf(o) ==
    IF o.kind = "Buy" THEN BuyTrade(Join(o.chars), o.quantity, o.price)
    ELSE SellTrade(Join(o.chars), o.quantity, o.price)

\* cmd_buy(...) / cmd_sell(...)
COf(o) ==
    IF o.kind = "Buy" THEN cmd_buy(o.chars, o.quantity, o.price)
    ELSE cmd_sell(o.chars, o.quantity, o.price)

\* the three programs after construction
ThreeNew ==
    [objs |-> [o \in {"classic_history", "classic_portfolio", "history",
                      "c_history", "c_portfolio"} |->
                 CASE o = "classic_history" -> NewHistory
                   [] o = "classic_portfolio" -> NewPortfolio(DemoCash)
                   [] o = "history" -> NewHistory
                   [] o = "c_history" -> history_init
                   [] o = "c_portfolio" -> portfolio_init(DemoCash)],
     portfolio |-> NewPortfolio(DemoCash)]

\* the outcomes of one call made on the three programs: the results of the
\* classic and of the modern program with each outcome of the C program
ThreeOutcomes(classic, modern, cs) ==
    { [objs      |-> [classic.store EXCEPT !["history"] = modern.h,
                                               !["c_history"] = c.h,
                                               !["c_portfolio"] = c.p],
       portfolio |-> modern.p,
       ret       |-> [classic |-> classic.ret, modern |-> modern.ret, c |-> c.ret]] :
      c \in cs }

\* history.execute(...) of the three programs in the state s
ThreeExecuteCall(s, o) ==
    ThreeOutcomes(CommandHistory_execute(s.objs, "classic_history", ClassicOf(o)),
                  execute(s.objs["history"], ModernOf(o), s.portfolio),
                  history_execute(s.objs["c_history"], COf(o), s.objs["c_portfolio"]))

\* history.undo() of the three programs in the state s
ThreeUndoCall(s) ==
    ThreeOutcomes(CommandHistory_undo(s.objs, "classic_history"),
                  undo(s.objs["history"], s.portfolio),
                  history_undo(s.objs["c_history"], s.objs["c_portfolio"]))

\* history.redo() of the three programs in the state s
ThreeRedoCall(s) ==
    ThreeOutcomes(CommandHistory_redo(s.objs, "classic_history"),
                  redo(s.objs["history"], s.portfolio),
                  history_redo(s.objs["c_history"], s.objs["c_portfolio"]))

\* the state reached from s by executing the order o until the undo stacks
\* hold n actions
RECURSIVE ThreeFilled(_, _, _)
ThreeFilled(n, o, s) ==
    IF Len(s.objs["history"].executed) = n THEN s
    ELSE LET r == CHOOSE r \in ThreeExecuteCall(s, o) : TRUE
         IN  ThreeFilled(n, o, [objs |-> r.objs, portfolio |-> r.portfolio])

\* the runs start after construction, or after a caller has filled the
\* histories up to the last free slot of the C arrays
InitThree ==
    /\ \E n \in {0, MAX_HISTORY - 1} :
         LET s == ThreeFilled(n, [kind |-> "Buy", chars |-> AAPL, quantity |-> 100,
                                  price |-> Price185_50], ThreeNew)
         IN  /\ objs = s.objs
             /\ portfolio = s.portfolio
    /\ snapshot = "none"
    /\ log = <<>>

\* the three programs as they stand
ThreeNow == [objs |-> objs, portfolio |-> portfolio]

\* the call op with the order o is made on the three programs, with the
\* outcomes rs
ThreeCalled(op, o, rs) ==
    /\ Len(log) < MaxThreeCalls
    /\ ~objs["c_history"].oob
    /\ ~objs["c_portfolio"].oob
    /\ \E r \in rs :
          /\ objs' = r.objs
          /\ portfolio' = r.portfolio
          /\ log' = Append(log, [op |-> op, on |-> "three", action |-> o,
                                 ret |-> r.ret, pre |-> Here])
    /\ UNCHANGED snapshot

ThreeExecute(o) == ThreeCalled("execute", o, ThreeExecuteCall(ThreeNow, o))

ThreeUndo == ThreeCalled("undo", NoAction, ThreeUndoCall(ThreeNow))

ThreeRedo == ThreeCalled("redo", NoAction, ThreeRedoCall(ThreeNow))

NextThree ==
    \/ \E o \in ThreeOrders : ThreeExecute(o)
    \/ ThreeUndo
    \/ ThreeRedo

SpecThree == InitThree /\ [][NextThree]_vars

(***************************************************************************)
(* The C program on a Portfolio that already holds positions: the array of *)
(* MAX_POSITIONS symbols is never compacted and portfolio_adjust appends   *)
(* to it without a bound.                                                  *)
(***************************************************************************)

\* most calls made in one run
MaxPositionCalls == 3

\* the symbol of the position bought i-th (from 0): S00, S01, ...
Name(i) == <<"S", Digits[(i \div 10) + 1], Digits[(i % 10) + 1]>>

\* the Portfolio after buying 10 shares of Name(count), ... until it holds
\* n positions
RECURSIVE Held(_, _)
Held(n, p) ==
    IF p.count = n THEN p
    ELSE Held(n, CHOOSE q \in portfolio_buy(p, Name(p.count), 10, Price420_00) : TRUE)

\* the commands a caller may submit: on new symbols and on a held one
PositionCommands ==
    { cmd_buy(AAPL, 100, Price185_50),
      cmd_sell(MSFT, 7, Price19_99),
      cmd_sell(Name(0), 10, Price420_00) }

\* a new history, on a Portfolio with no position or with one free slot
InitPositions ==
    /\ \E n \in {0, MAX_POSITIONS - 1} :
          portfolio = Held(n, portfolio_init(DemoCash))
    /\ objs = [o \in {"history"} |-> history_init]
    /\ snapshot = "none"
    /\ log = <<>>

\* a call on the C history with one of its outcomes
PositionsCalled(op, cmd, outcomes) ==
    /\ Len(log) < MaxPositionCalls
    /\ ~portfolio.oob
    /\ \E r \in outcomes : Called("history", op, cmd, r)

PositionsExecute(cmd) ==
    PositionsCalled("execute", cmd, history_execute(objs["history"], cmd, portfolio))

PositionsUndo ==
    PositionsCalled("undo", NoAction, history_undo(objs["history"], portfolio))

PositionsRedo ==
    PositionsCalled("redo", NoAction, history_redo(objs["history"], portfolio))

NextPositions ==
    \/ \E cmd \in PositionCommands : PositionsExecute(cmd)
    \/ PositionsUndo
    \/ PositionsRedo

SpecPositions == InitPositions /\ [][NextPositions]_vars

(***************************************************************************)
(* Strategy pattern, modern program (strategy/modern/main.cpp).  A         *)
(* type-erased ExecutionStrategy owns a Model on the heap through pimpl_;  *)
(* the heap is a function from the addresses in use to the objects there.  *)
(***************************************************************************)

\* |x| rounded to an integer, ties to even
Units(x) ==
    IF x.mant = <<>> THEN 0
    ELSE IF x.exp >= 0 THEN LToNat(LShl(x.mant, x.exp))
    ELSE LET d      == -x.exp
             kept   == LShr(x.mant, d)
             half   == LBit(x.mant, d)
             sticky == \E i \in 1..(d - 1) : LBit(x.mant, i) = 1
             up     == half = 1 /\ (sticky \/ LBit(kept, 1) = 1)
         IN  LToNat(IF up THEN LAdd(kept, <<1>>) ELSE kept)

\* "%.0f" of a double
FormatF0(x) == (IF x.neg THEN "-" ELSE "") \o IntToStr(Units(x))

TWAPStrategy(slices) == [type |-> "TWAPStrategy", slices |-> slices]

VWAPStrategy(participation_rate) ==
    [type |-> "VWAPStrategy", participation_rate |-> participation_rate]

IcebergStrategy(visible_qty) == [type |-> "IcebergStrategy", visible_qty |-> visible_qty]

\* the line TWAPStrategy::execute prints
TWAPStrategy_execute(s, symbol, qty, price) ==
    "[TWAP] Executing " \o symbol \o ": " \o IntToStr(qty) \o " shares @ $"
      \o FormatF2(price) \o " across " \o IntToStr(s.slices) \o " time slices ("
      \o IntToStr(qty \div s.slices) \o "/slice)"

VWAPStrategy_execute(s, symbol, qty, price) ==
    "[VWAP] Executing " \o symbol \o ": " \o IntToStr(qty) \o " shares @ $"
      \o FormatF2(price) \o " with "
      \o FormatF0(FMul(s.participation_rate, FFromInt(100)))
      \o "% participation rate"

IcebergStrategy_execute(s, symbol, qty, price) ==
    "[Iceberg] Executing " \o symbol \o ": " \o IntToStr(qty) \o " shares @ $"
      \o FormatF2(price) \o " showing " \o IntToStr(s.visible_qty) \o " at a time"

\* Model<T>::execute, the virtual call through Concept
Model_execute(m, symbol, qty, price) ==
    CASE m.type = "TWAPStrategy" -> TWAPStrategy_execute(m, symbol, qty, price)
      [] m.type = "VWAPStrategy" -> VWAPStrategy_execute(m, symbol, qty, price)
      [] m.type = "IcebergStrategy" -> IcebergStrategy_execute(m, symbol, qty, price)

\* Model<T>::name
Model_name(m) ==
    CASE m.type = "TWAPStrategy" -> "TWAP"
      [] m.type = "VWAPStrategy" -> "VWAP"
      [] m.type = "IcebergStrategy" -> "Iceberg"

\* std::make_unique<Model<T>>(strategy): the object at an address not in use
make_unique(heap, m) ==
    LET a == CHOOSE a \in 1..(Cardinality(DOMAIN heap) + 1) : a \notin DOMAIN heap
    IN  [heap |-> [b \in (DOMAIN heap) \cup {a} |-> IF b = a THEN m ELSE heap[b]],
         ptr  |-> a]

\* the destructor of a unique_ptr to the object at a
delete(heap, a) == [b \in (DOMAIN heap) \ {a} |-> heap[b]]

\* template <typename T> ExecutionStrategy(T strategy)
ExecutionStrategy(heap, strategy) ==
    LET u == make_unique(heap, strategy)
    IN  [heap |-> u.heap, s |-> [pimpl_ |-> u.ptr]]

\* a copy that shares the Model of the original
clone_shares(heap, other) == [heap |-> heap, s |-> [pimpl_ |-> other.pimpl_]]

\* ExecutionStrategy(const ExecutionStrategy& other): pimpl_(other.pimpl_->clone())
clone(heap, other) ==
    LET u == make_unique(heap, heap[other.pimpl_])
    IN  [heap |-> u.heap, s |-> [pimpl_ |-> u.ptr]]

\* Order(std::string symbol, int qty, double price, ExecutionStrategy strategy)
NewOrder(heap, symbol, qty, price, strategy) ==
    LET e == ExecutionStrategy(heap, strategy)
    IN  [heap |-> e.heap,
         o    |-> [symbol_ |-> symbol, quantity_ |-> qty, price_ |-> price,
                   strategy_ |-> e.s]]

\* Order(const Order&) = default
CopyOrder(heap, other) ==
    LET e == clone(heap, other.strategy_)
    IN  [heap |-> e.heap, o |-> [other EXCEPT !.strategy_ = e.s]]

\* void set_strategy(ExecutionStrategy s) { strategy_ = std::move(s); }
\* the move assignment deletes the Model owned so far
set_strategy(heap, o, strategy) ==
    LET e == ExecutionStrategy(heap, strategy)
    IN  [heap |-> delete(e.heap, o.strategy_.pimpl_),
         o    |-> [o EXCEPT !.strategy_ = e.s]]

\* the lines Order::send prints
send(heap, o) ==
    IF o.strategy_.pimpl_ \notin DOMAIN heap THEN <<"(deleted Model)">>
    ELSE LET m == heap[o.strategy_.pimpl_]
         IN  << "Order: " \o o.symbol_ \o " " \o IntToStr(o.quantity_)
                  \o " shares @ $" \o FormatF2(o.price_) \o " using " \o Model_name(m),
                Model_execute(m, o.symbol_, o.quantity_, o.price_) >>

(***************************************************************************)
(* Strategy pattern, C program (strategy.c): a tagged union and a table of *)
(* function pointers with inline storage, both embedded in the Order.      *)
(***************************************************************************)

strategy_twap(slices) ==
    [type |-> "STRATEGY_TWAP", params |-> [twap |-> [slices |-> slices]]]

strategy_vwap(rate) ==
    [type |-> "STRATEGY_VWAP", params |-> [vwap |-> [participation_rate |-> rate]]]

strategy_iceberg(visible) ==
    [type |-> "STRATEGY_ICEBERG", params |-> [iceberg |-> [visible_qty |-> visible]]]

\* the line strategy_execute prints
strategy_execute(s, symbol, qty, price) ==
    CASE s.type = "STRATEGY_TWAP" ->
            "[TWAP] Executing " \o symbol \o ": " \o IntToStr(qty) \o " shares @ $"
              \o FormatF2(price) \o " across " \o IntToStr(s.params.twap.slices)
              \o " slices (" \o IntToStr(qty \div s.params.twap.slices) \o "/slice)"
      [] s.type = "STRATEGY_VWAP" ->
            "[VWAP] Executing " \o symbol \o ": " \o IntToStr(qty) \o " shares @ $"
              \o FormatF2(price) \o " with "
              \o FormatF0(FMul(s.params.vwap.participation_rate, FFromInt(100)))
              \o "% participation"
      [] s.type = "STRATEGY_ICEBERG" ->
            "[Iceberg] Executing " \o symbol \o ": " \o IntToStr(qty) \o " shares @ $"
              \o FormatF2(price) \o " showing "
              \o IntToStr(s.params.iceberg.visible_qty) \o " at a time"

strategy_name(s) ==
    CASE s.type = "STRATEGY_TWAP" -> "TWAP"
      [] s.type = "STRATEGY_VWAP" -> "VWAP"
      [] s.type = "STRATEGY_ICEBERG" -> "Iceberg"
      [] OTHER -> "Unknown"

order_create(symbol, qty, price, strategy) ==
    [symbol |-> strncpy15(symbol), quantity |-> qty, price |-> price,
     strategy |-> strategy]

\* the lines order_send prints
order_send(o) ==
    << "Order: " \o Join(o.symbol) \o " " \o IntToStr(o.quantity) \o " shares @ $"
         \o FormatF2(o.price) \o " using " \o strategy_name(o.strategy),
       strategy_execute(o.strategy, Join(o.symbol), o.quantity, o.price) >>

twap_execute(self, symbol, qty, price) ==
    "[TWAP-erased] Executing " \o symbol \o ": " \o IntToStr(qty) \o " shares @ $"
      \o FormatF2(price) \o " across " \o IntToStr(self.slices) \o " slices ("
      \o IntToStr(qty \div self.slices) \o "/slice)"

twap_name(self) == "TWAP"

erased_twap(slices) ==
    [ops |-> [execute |-> "twap_execute", name |-> "twap_name"],
     storage |-> [slices |-> slices]]

vwap_execute(self, symbol, qty, price) ==
    "[VWAP-erased] Executing " \o symbol \o ": " \o IntToStr(qty) \o " shares @ $"
      \o FormatF2(price) \o " with "
      \o FormatF0(FMul(self.participation_rate, FFromInt(100))) \o "% participation"

vwap_name(self) == "VWAP"

erased_vwap(rate) ==
    [ops |-> [execute |-> "vwap_execute", name |-> "vwap_name"],
     storage |-> [participation_rate |-> rate]]

iceberg_execute(self, symbol, qty, price) ==
    "[Iceberg-erased] Executing " \o symbol \o ": " \o IntToStr(qty) \o " shares @ $"
      \o FormatF2(price) \o " showing " \o IntToStr(self.visible_qty) \o " at a time"

iceberg_name(self) == "Iceberg"

erased_iceberg(visible) ==
    [ops |-> [execute |-> "iceberg_execute", name |-> "iceberg_name"],
     storage |-> [visible_qty |-> visible]]

\* s->ops.execute(s->storage, symbol, qty, price)
erased_execute(s, symbol, qty, price) ==
    CASE s.ops.execute = "twap_execute" -> twap_execute(s.storage, symbol, qty, price)
      [] s.ops.execute = "vwap_execute" -> vwap_execute(s.storage, symbol, qty, price)
      [] s.ops.execute = "iceberg_execute" ->
            iceberg_execute(s.storage, symbol, qty, price)

\* s->ops.name(s->storage)
erased_name(s) ==
    CASE s.ops.name = "twap_name" -> twap_name(s.storage)
      [] s.ops.name = "vwap_name" -> vwap_name(s.storage)
      [] s.ops.name = "iceberg_name" -> iceberg_name(s.storage)

erased_order_create(symbol, qty, price, strategy) ==
    [symbol |-> strncpy15(symbol), quantity |-> qty, price |-> price,
     strategy |-> strategy]

\* the lines erased_order_send prints
erased_order_send(o) ==
    << "Order: " \o Join(o.symbol) \o " " \o IntToStr(o.quantity) \o " shares @ $"
         \o FormatF2(o.price) \o " using " \o erased_name(o.strategy),
       erased_execute(o.strategy, Join(o.symbol), o.quantity, o.price) >>

(***************************************************************************)
(* The strategy programs: the same calls made on the Order of the modern   *)
(* program, on the Order of the C program (tagged union) and on its        *)
(* ErasedOrder; order2 is the copy each main takes.                        *)
(***************************************************************************)

\* most calls made in one run, the construction of the order included
MaxOrderCalls == 5

Rate0_15 == FLit(<<153, 19660, 26214, 13107>>, -55)

\* the strategies main assigns: TWAP over 5 and over 10 slices, VWAP at
\* 15 %, Iceberg showing 500
StrategyChoices ==
    { [kind |-> "TWAP", arg |-> 5], [kind |-> "VWAP", arg |-> 15],
      [kind |-> "Iceberg", arg |-> 500], [kind |-> "TWAP", arg |-> 10] }

\* TWAPStrategy{5}, VWAPStrategy{0.15}, IcebergStrategy{500}, TWAPStrategy{10}
ModernStrategy(k) ==
    CASE k.kind = "TWAP" -> TWAPStrategy(k.arg)
      [] k.kind = "VWAP" -> VWAPStrategy(Rate0_15)
      [] k.kind = "Iceberg" -> IcebergStrategy(k.arg)

\* strategy_twap(5), strategy_vwap(0.15), strategy_iceberg(500), strategy_twap(10)
TaggedStrategy(k) ==
    CASE k.kind = "TWAP" -> strategy_twap(k.arg)
      [] k.kind = "VWAP" -> strategy_vwap(Rate0_15)
      [] k.kind = "Iceberg" -> strategy_iceberg(k.arg)

\* erased_twap(5), erased_vwap(0.15), erased_iceberg(500), erased_twap(10)
ErasedStrategy(k) ==
    CASE k.kind = "TWAP" -> erased_twap(k.arg)
      [] k.kind = "VWAP" -> erased_vwap(Rate0_15)
      [] k.kind = "Iceberg" -> erased_iceberg(k.arg)

\* the names of an order in the C program
Tagged(o) == "c_" \o o

Erased(o) == "e" \o o

\* Order order("AAPL", 10000, 185.50, ...) in each program
InitOrders ==
    \E k \in StrategyChoices :
        LET n == NewOrder(<<>>, "AAPL", 10000, Price185_50, ModernStrategy(k))
        IN  /\ objs = [o \in {"heap", "order", "c_order", "eorder"} |->
                          CASE o = "heap" -> n.heap
                            [] o = "order" -> n.o
                            [] o = "c_order" ->
                                  order_create(AAPL, 10000, Price185_50, TaggedStrategy(k))
                            [] o = "eorder" ->
                                  erased_order_create(AAPL, 10000, Price185_50,
                                                      ErasedStrategy(k))]
            /\ snapshot = "none"
            /\ portfolio = NewPortfolio(FZero)
            /\ log = << [op |-> "Order", on |-> "order", action |-> k, ret |-> "void",
                         pre |-> [objs |-> <<>>, snapshot |-> "none",
                                  portfolio |-> NewPortfolio(FZero)]] >>

\* a call on the order o of each program
OrderCalled(op, o, k, ret, after) ==
    /\ Len(log) < MaxOrderCalls
    /\ objs' = after
    /\ log' = Append(log, [op |-> op, on |-> o, action |-> k, ret |-> ret,
                           pre |-> Here])
    /\ UNCHANGED <<snapshot, portfolio>>

\* order.set_strategy(...); order.strategy = strategy_...(...);
\* eorder.strategy = erased_...(...)
SetStrategy(o, k) ==
    /\ o \in DOMAIN objs
    /\ LET m == set_strategy(objs["heap"], objs[o], ModernStrategy(k))
       IN  OrderCalled("set_strategy", o, k, "void",
               [objs EXCEPT !["heap"] = m.heap,
                            ![o] = m.o,
                            ![Tagged(o)].strategy = TaggedStrategy(k),
                            ![Erased(o)].strategy = ErasedStrategy(k)])

\* order.send(); order_send(&order); erased_order_send(&eorder)
Send(o) ==
    /\ o \in DOMAIN objs
    /\ OrderCalled("send", o, NoAction,
                   [modern |-> send(objs["heap"], objs[o]),
                    c      |-> order_send(objs[Tagged(o)]),
                    erased |-> erased_order_send(objs[Erased(o)])],
                   objs)

\* Order order2 = order; ErasedOrder eorder2 = eorder;
CopyTheOrder ==
    /\ "order2" \notin DOMAIN objs
    /\ LET m == CopyOrder(objs["heap"], objs["order"])
       IN  OrderCalled("copy", "order", NoAction, "void",
               [o \in (DOMAIN objs) \cup {"order2", "c_order2", "eorder2"} |->
                   CASE o = "heap" -> m.heap
                     [] o = "order2" -> m.o
                     [] o = "c_order2" -> objs["c_order"]
                     [] o = "eorder2" -> objs["eorder"]
                     [] OTHER -> objs[o]])

NextOrders ==
    \/ \E o \in {"order", "order2"}, k \in StrategyChoices : SetStrategy(o, k)
    \/ \E o \in {"order", "order2"} : Send(o)
    \/ CopyTheOrder

SpecOrders == InitOrders /\ [][NextOrders]_vars

(***************************************************************************)
(* Visitor pattern.  A handler is modelled by the record of its            *)
(* invocation: the pass it belongs to, the kind of instrument it is        *)
(* written for and the position of the element it was handed.              *)
(***************************************************************************)

Handled(pass, kind, i) == [visitor |-> pass, kind |-> kind, inst |-> i]

(* classic program: double dispatch (visitor/classic/main.cpp) *)

Bond(issuer, face, coupon, years) ==
    [class |-> "Bond", issuer_ |-> issuer, face_value_ |-> face,
     coupon_rate_ |-> coupon, maturity_years_ |-> years]

Swap(notional, fixed_rate, tenor) ==
    [class |-> "Swap", notional_ |-> notional, fixed_rate_ |-> fixed_rate,
     tenor_years_ |-> tenor]

Option(underlying, strike, spot, is_call) ==
    [class |-> "Option", underlying_ |-> underlying, strike_ |-> strike,
     spot_ |-> spot, is_call_ |-> is_call]

\* v.visit(x) with x of static type `overload`: the override of the class of v
visit(v, overload, i) ==
    CASE v = "PricingVisitor" -> <<Handled("Pricing", overload, i)>>
      [] v = "RiskVisitor" -> <<Handled("Risk", overload, i)>>
      [] v = "RegulatoryVisitor" -> <<Handled("Regulatory", overload, i)>>

\* Swap::accept that passes itself on as an Option
accept_as_option(inst, i, v) ==
    CASE inst.class = "Bond" -> visit(v, "Bond", i)
      [] inst.class = "Swap" -> visit(v, "Option", i)
      [] inst.class = "Option" -> visit(v, "Option", i)

\* inst->accept(v): the override of the class of the element, each being
\* v.visit(*this)
accept(inst, i, v) ==
    CASE inst.class = "Bond" -> visit(v, "Bond", i)
      [] inst.class = "Swap" -> visit(v, "Swap", i)
      [] inst.class = "Option" -> visit(v, "Option", i)

\* for (const auto& inst : portfolio) inst->accept(v);
RECURSIVE accept_all(_, _, _)
accept_all(elements, i, v) ==
    IF i > Len(elements) THEN <<>>
    ELSE accept(elements[i], i, v) \o accept_all(elements, i + 1, v)

(* modern program: std::variant (visitor/modern/main.cpp) *)

\* an Instrument holding alternative number index of Bond, Swap, Option
Variant(index, value) == [index |-> index, value |-> value]

\* std::visit(visitor, inst): the overload for the alternative held
std_visit(visitor, inst, i) ==
    CASE inst.index = 0 -> <<Handled(visitor, "Bond", i)>>
      [] inst.index = 1 -> <<Handled(visitor, "Swap", i)>>
      [] inst.index = 2 -> <<Handled(visitor, "Option", i)>>

\* for (const auto& inst : portfolio) std::visit(visitor, inst);
RECURSIVE visit_all(_, _, _)
visit_all(elements, i, visitor) ==
    IF i > Len(elements) THEN <<>>
    ELSE std_visit(visitor, elements[i], i) \o visit_all(elements, i + 1, visitor)

(* C program: tagged union (visitor.c) *)

\* strncpy(dst, src, sizeof(dst) - 1); dst[sizeof(dst) - 1] = '\0';
strncpy_into(size, src) == SubSeq(src, 1, Min(Len(src), size - 1))

make_bond(issuer, face, coupon, years) ==
    [type |-> "INST_BOND",
     data |-> [bond |-> [issuer |-> strncpy_into(32, issuer), face_value |-> face,
                         coupon_rate |-> coupon, maturity_years |-> years]]]

make_swap(notional, fixed_rate, tenor) ==
    [type |-> "INST_SWAP",
     data |-> [swap |-> [notional |-> notional, fixed_rate |-> fixed_rate,
                         tenor_years |-> tenor]]]

make_option(underlying, strike, spot, is_call) ==
    [type |-> "INST_OPTION",
     data |-> [option |-> [underlying |-> strncpy_into(16, underlying),
                           strike |-> strike, spot |-> spot, is_call |-> is_call]]]

\* the cases of the switch that run for the tag: each case ends in a break
switch(pass, inst, i) ==
    CASE inst.type = "INST_BOND" -> <<Handled(pass, "Bond", i)>>
      [] inst.type = "INST_SWAP" -> <<Handled(pass, "Swap", i)>>
      [] inst.type = "INST_OPTION" -> <<Handled(pass, "Option", i)>>
      [] OTHER -> <<>>

visit_pricing(inst, i) == switch("Pricing", inst, i)

visit_risk(inst, i) == switch("Risk", inst, i)

visit_regulatory(inst, i) == switch("Regulatory", inst, i)

\* visitor(&portfolio[i]) through the function pointer
VisitorFn(visitor, inst, i) ==
    CASE visitor = "visit_pricing" -> visit_pricing(inst, i)
      [] visitor = "visit_risk" -> visit_risk(inst, i)
      [] visitor = "visit_regulatory" -> visit_regulatory(inst, i)

\* for (size_t i = 0; i < count; ++i) visitor(&portfolio[i]);
RECURSIVE visit_from(_, _, _, _)
visit_from(i, elements, count, visitor) ==
    IF i >= count THEN <<>>
    ELSE VisitorFn(visitor, elements[i + 1], i + 1)
           \o visit_from(i + 1, elements, count, visitor)

visit_portfolio(elements, count, visitor) == visit_from(0, elements, count, visitor)

(* the three programs *)

\* most instruments in a portfolio, most passes made in one run
MaxInstruments == 3

MaxPasses == 2

Rate0_045 == FLit(<<92, 5242, 28835, 27525>>, -56)

Rate0_0375 == FLit(<<153, 19660, 26214, 13107>>, -57)

US_TREASURY == <<"U", "S", "-", "T", "R", "E", "A", "S", "U", "R", "Y">>

SPX == <<"S", "P", "X">>

\* the instruments main puts into the portfolio
Instruments ==
    { [kind |-> "Bond", name |-> US_TREASURY, a |-> FLit(<<15625>>, 6),
       b |-> Rate0_045, n |-> 10],
      [kind |-> "Swap", name |-> <<>>, a |-> FLit(<<2, 12589>>, 6),
       b |-> Rate0_0375, n |-> 5],
      [kind |-> "Option", name |-> SPX, a |-> FLit(<<1125>>, 2),
       b |-> FLit(<<2275>>, 1), n |-> 1],
      [kind |-> "Option", name |-> AAPL, a |-> FLit(<<95>>, 1),
       b |-> FLit(<<185>>, 0), n |-> 0] }

\* std::make_unique<Bond>(...), ... of the classic program
ClassicInstrument(m) ==
    CASE m.kind = "Bond" -> Bond(Join(m.name), m.a, m.b, m.n)
      [] m.kind = "Swap" -> Swap(m.a, m.b, m.n)
      [] m.kind = "Option" -> Option(Join(m.name), m.a, m.b, m.n = 1)

\* Bond{...}, Swap{...}, Option{...} of the modern program, in a variant
ModernInstrument(m) ==
    CASE m.kind = "Bond" ->
            Variant(0, [issuer |-> Join(m.name), face_value |-> m.a,
                        coupon_rate |-> m.b, maturity_years |-> m.n])
      [] m.kind = "Swap" ->
            Variant(1, [notional |-> m.a, fixed_rate |-> m.b, tenor_years |-> m.n])
      [] m.kind = "Option" ->
            Variant(2, [underlying |-> Join(m.name), strike |-> m.a, spot |-> m.b,
                        is_call |-> m.n = 1])

\* make_bond(...), make_swap(...), make_option(...) of the C program
CInstrument(m) ==
    CASE m.kind = "Bond" -> make_bond(m.name, m.a, m.b, m.n)
      [] m.kind = "Swap" -> make_swap(m.a, m.b, m.n)
      [] m.kind = "Option" -> make_option(m.name, m.a, m.b, m.n)

\* the sequences of at most n of the instruments
RECURSIVE UpTo(_)
UpTo(n) ==
    IF n = 0 THEN { <<>> }
    ELSE UpTo(n - 1) \cup { Append(s, m) : s \in UpTo(n - 1), m \in Instruments }

\* the portfolio of each program, filled with the same instruments
InitVisitors ==
    /\ \E made \in UpTo(MaxInstruments) :
          objs = [o \in {"made", "classic", "modern", "c"} |->
                     CASE o = "made" -> made
                       [] o = "classic" -> [i \in 1..Len(made) |-> ClassicInstrument(made[i])]
                       [] o = "modern" -> [i \in 1..Len(made) |-> ModernInstrument(made[i])]
                       [] o = "c" -> [i \in 1..Len(made) |-> CInstrument(made[i])]]
    /\ snapshot = "none"
    /\ portfolio = NewPortfolio(FZero)
    /\ log = <<>>

\* one loop over the portfolio in each program, with the visitor each
\* program has for the pass
Passed(pass, v, visitor) ==
    /\ Len(log) < MaxPasses
    /\ log' = Append(log,
                [op |-> "pass", on |-> "portfolio", action |-> pass,
                 ret |-> [classic |-> accept_all(objs["classic"], 1, v),
                          modern  |-> visit_all(objs["modern"], 1, pass),
                          c       |-> visit_portfolio(objs["c"], Len(objs["c"]), visitor)],
                 pre |-> Here])
    /\ UNCHANGED <<objs, snapshot, portfolio>>

PricingPass == Passed("Pricing", "PricingVisitor", "visit_pricing")

RiskPass == Passed("Risk", "RiskVisitor", "visit_risk")

RegulatoryPass == Passed("Regulatory", "RegulatoryVisitor", "visit_regulatory")

NextVisitors ==
    \/ PricingPass
    \/ RiskPass
    \/ RegulatoryPass

SpecVisitors == InitVisitors /\ [][NextVisitors]_vars

(***************************************************************************)
(* Vocabulary of the properties                                            *)
(***************************************************************************)

\* quantity held of a symbol; a symbol with no entry counts as 0
Qty(p, symbol) == IF symbol \in DOMAIN p.positions THEN p.positions[symbol] ELSE 0

\* equal cash and equal quantity of every symbol
SamePortfolio(p, q) ==
    /\ p.cash = q.cash
    /\ \A symbol \in Symbols : Qty(p, symbol) = Qty(q, symbol)

\* the portfolio the run started from
InitialPortfolio == IF log = <<>> THEN portfolio ELSE log[1].pre.portfolio

\* the actions applied in order to p
RECURSIVE Replay(_, _)
Replay(actions, p) ==
    IF actions = <<>> THEN p
    ELSE Replay(Tail(actions), execute_action(Head(actions), p))

History == objs["history"]

N == Len(log)

\* the last k calls were ops[1], ..., ops[k], all on the object `history`
LastCalls(ops) ==
    /\ N >= Len(ops)
    /\ \A i \in 1..Len(ops) :
          /\ log[N - Len(ops) + i].op = ops[i]
          /\ log[N - Len(ops) + i].on = "history"

\* the call k calls before the last one (0: the last one)
Call(k) == log[N - k]

(***************************************************************************)
(* C1: after any sequence of execute, undo and redo on one history, the    *)
(* cash and every quantity equal the result of applying the actions on     *)
(* the undo stack, in order, to the initial Portfolio.                     *)
(* Fails: undoing does not always restore the cash (see C3).               *)
(***************************************************************************)
C1_ReplayInvariant ==
    SamePortfolio(portfolio, Replay(History.executed, InitialPortfolio))

(***************************************************************************)
(* C2: immediately after any execute the redo stack is empty, and a redo   *)
(* that follows an execute (as in execute(A); undo(); execute(B); redo())  *)
(* returns false and changes neither the history nor the Portfolio.        *)
(***************************************************************************)
C2_ExecuteClearsRedo ==
    /\ LastCalls(<<"execute">>) => History.undone = <<>>
    /\ LastCalls(<<"execute", "redo">>) =>
          /\ Call(0).ret = "false"
          /\ objs = Call(0).pre.objs
          /\ portfolio = Call(0).pre.portfolio

\* execute(A); undo(); execute(B); redo() has run, with A undone
C2_Witness ==
    /\ LastCalls(<<"execute", "undo", "execute", "redo">>)
    /\ Call(2).ret = "true"
    /\ Call(1).pre.objs["history"].undone # <<>>

(***************************************************************************)
(* C3: execute(A) followed by undo() restores the Portfolio: cash equal    *)
(* and every symbol's quantity equal.                                      *)
(* Fails: cash is a double; (cash + q*p) - q*p rounds twice.               *)
(***************************************************************************)
C3_UndoRestores ==
    LastCalls(<<"execute", "undo">>) =>
        SamePortfolio(portfolio, Call(1).pre.portfolio)

C5_ExecuteAppliesAndRecords ==
    LastCalls(<<"execute">>) =>
        /\ portfolio = execute_action(Call(0).action, Call(0).pre.portfolio)
        /\ print_history(History) =
              Append(print_history(Call(0).pre.objs["history"]),
                     IntToStr(Len(Call(0).pre.objs["history"].executed) + 1) \o ". "
                        \o action_description(Call(0).action))

\* an execute on a history that already lists entries and holds undone actions
C5_Witness ==
    /\ LastCalls(<<"execute">>)
    /\ Call(0).pre.objs["history"].executed # <<>>
    /\ Call(0).pre.objs["history"].undone # <<>>

\* the listing holds an entry that describes the action
Lists(h, action) ==
    \E i \in 1..Len(h.executed) :
        print_history(h)[i] = IntToStr(i) \o ". " \o action_description(action)

\* the last call was made with a copy in existence
CopyExisted == N >= 1 /\ Call(0).pre.snapshot # "none"

\* the TradeHistory the name `snapshot` denoted before / denotes after the last call
CopyBefore == Call(0).pre.objs[Call(0).pre.snapshot]

CopyNow == objs[snapshot]

(***************************************************************************)
(* C6 as stated: after h2 = h1.snapshot(), calls on h1 leave both stacks   *)
(* of h2 unchanged and calls on h2 leave both stacks of h1 unchanged, and  *)
(* after h1.execute(C) the listing of h2 does not contain C's description. *)
(* Fails: the copy may already list an action equal to C.                  *)
(***************************************************************************)
C6_AsStated ==
    CopyExisted =>
        /\ Call(0).on = "history" => CopyNow = CopyBefore
        /\ Call(0).on # "history" => History = Call(0).pre.objs["history"]
        /\ (Call(0).on = "history" /\ Call(0).op = "execute") =>
              /\ print_history(CopyNow) = print_history(CopyBefore)
              /\ ~Lists(CopyNow, Call(0).action)

(***************************************************************************)
(* C6 amended: after h2 = h1.snapshot(), calls on h1 leave both stacks of  *)
(* h2 unchanged and calls on h2 leave both stacks of h1 unchanged; after   *)
(* h1.execute(C) the listing of h2 is unchanged, so it contains C's        *)
(* description only if it contained it before the call.                    *)
(***************************************************************************)
C6_SnapshotIsolation ==
    CopyExisted =>
        /\ Call(0).on = "history" => CopyNow = CopyBefore
        /\ Call(0).on # "history" => History = Call(0).pre.objs["history"]
        /\ (Call(0).on = "history" /\ Call(0).op = "execute") =>
              /\ print_history(CopyNow) = print_history(CopyBefore)
              /\ Lists(CopyNow, Call(0).action) => Lists(CopyBefore, Call(0).action)

\* the original and the copy have both been driven since the copy was
\* taken, the last call being an execute on the original
C6_Witness ==
    /\ CopyExisted
    /\ LastCalls(<<"execute">>)
    /\ \E i \in 1..(N - 1) : log[i].pre.snapshot # "none" /\ log[i].on # "history"
    /\ CopyNow # History
    /\ ~Lists(CopyNow, Call(0).action)

(***************************************************************************)
(* C7: whenever the undo stack is empty, undo() returns false and leaves   *)
(* the undo stack, the redo stack and the Portfolio unchanged.             *)
(***************************************************************************)
C7_UndoOnEmpty ==
    (LastCalls(<<"undo">>) /\ Call(0).pre.objs["history"].executed = <<>>) =>
        /\ Call(0).ret = "false"
        /\ History = Call(0).pre.objs["history"]
        /\ portfolio = Call(0).pre.portfolio

\* undo on a history that is empty again after its actions were undone
C7_Witness ==
    /\ LastCalls(<<"undo">>)
    /\ Call(0).pre.objs["history"].executed = <<>>
    /\ Call(0).pre.objs["history"].undone # <<>>

(***************************************************************************)
(* C8: whenever the redo stack is empty, redo() returns false and leaves   *)
(* the undo stack, the redo stack and the Portfolio unchanged.             *)
(***************************************************************************)
C8_RedoOnEmpty ==
    (LastCalls(<<"redo">>) /\ Call(0).pre.objs["history"].undone = <<>>) =>
        /\ Call(0).ret = "false"
        /\ History = Call(0).pre.objs["history"]
        /\ portfolio = Call(0).pre.portfolio

\* redo after every undone action has been redone
C8_Witness ==
    /\ LastCalls(<<"undo", "redo", "redo">>)
    /\ Call(1).ret = "true"
    /\ Call(0).pre.objs["history"].undone = <<>>

\* the Portfolio q is p with qty more of the symbol and amount less cash
\* (amount taken as a double subtraction), nothing else changed
Moved(p, q, symbol, qty, cashAfter) ==
    /\ Qty(q, symbol) = Qty(p, symbol) + qty
    /\ \A other \in Symbols \ {symbol} : Qty(q, other) = Qty(p, other)
    /\ q.cash = cashAfter

(***************************************************************************)
(* C9: when the undo stack is non-empty, undo() returns true, removes      *)
(* exactly the last action from the undo stack, applies that action's      *)
(* inverse to the Portfolio (a Buy gives the shares back and returns       *)
(* quantity*price of cash, a Sell the opposite) and appends that action    *)
(* as the last element of the redo stack; all other elements keep their    *)
(* order.                                                                  *)
(***************************************************************************)
C9_UndoMovesLast ==
    (LastCalls(<<"undo">>) /\ Call(0).pre.objs["history"].executed # <<>>) =>
        LET h      == Call(0).pre.objs["history"]
            p      == Call(0).pre.portfolio
            a      == h.executed[Len(h.executed)]
            amount == FMul(FFromInt(a.quantity), a.price)
        IN  /\ Call(0).ret = "true"
            /\ History.executed = SubSeq(h.executed, 1, Len(h.executed) - 1)
            /\ History.undone = h.undone \o <<a>>
            /\ IF a.type = "BuyTrade"
               THEN Moved(p, portfolio, a.symbol, -a.quantity, FAdd(p.cash, amount))
               ELSE Moved(p, portfolio, a.symbol, a.quantity, FSub(p.cash, amount))

\* an undo with actions left below the undone one and others already undone
C9_Witness ==
    /\ LastCalls(<<"undo">>)
    /\ Len(Call(0).pre.objs["history"].executed) >= 2
    /\ Call(0).pre.objs["history"].undone # <<>>
    /\ Call(0).pre.objs["history"].executed[1] # Call(0).pre.objs["history"].executed[2]

(***************************************************************************)
(* C10: when the redo stack is non-empty, redo() returns true, removes     *)
(* exactly the last action from the redo stack, applies its forward        *)
(* effect to the Portfolio and appends it as the last element of the undo  *)
(* stack; the remaining redo-stack elements are kept in order.             *)
(***************************************************************************)
C10_RedoMovesLast ==
    (LastCalls(<<"redo">>) /\ Call(0).pre.objs["history"].undone # <<>>) =>
        LET h      == Call(0).pre.objs["history"]
            p      == Call(0).pre.portfolio
            a      == h.undone[Len(h.undone)]
            amount == FMul(FFromInt(a.quantity), a.price)
        IN  /\ Call(0).ret = "true"
            /\ History.undone = SubSeq(h.undone, 1, Len(h.undone) - 1)
            /\ History.executed = h.executed \o <<a>>
            /\ IF a.type = "BuyTrade"
               THEN Moved(p, portfolio, a.symbol, a.quantity, FSub(p.cash, amount))
               ELSE Moved(p, portfolio, a.symbol, -a.quantity, FAdd(p.cash, amount))

\* a redo with two different undone actions waiting and one action applied
C10_Witness ==
    /\ LastCalls(<<"redo">>)
    /\ Len(Call(0).pre.objs["history"].undone) >= 2
    /\ Call(0).pre.objs["history"].undone[1] # Call(0).pre.objs["history"].undone[2]
    /\ Call(0).pre.objs["history"].executed # <<>>

\* the calls of the demo run, in order
DemoCalls ==
    << [op |-> "execute", action |-> BuyTrade("AAPL", 100, Price185_50)],
       [op |-> "execute", action |-> BuyTrade("GOOGL", 50, Price140_25)],
       [op |-> "execute", action |-> SellTrade("MSFT", 75, Price420_00)],
       [op |-> "undo", action |-> NoAction],
       [op |-> "undo", action |-> NoAction],
       [op |-> "redo", action |-> NoAction] >>

\* the cash the demo run shows after each call:
\* 981450.00, 974437.50, 1005937.50, 974437.50, 981450.00, 974437.50
DemoCashAfter ==
    << FLit(<<29, 31178>>, 0), FLit(<<59, 15563>>, -1), FLit(<<61, 13027>>, -1),
       FLit(<<59, 15563>>, -1), FLit(<<29, 31178>>, 0), FLit(<<59, 15563>>, -1) >>

\* the run so far is the first N calls of the demo run
InDemoRun ==
    /\ N <= Len(DemoCalls)
    /\ \A i \in 1..N : /\ log[i].op = DemoCalls[i].op
                       /\ log[i].action = DemoCalls[i].action

(***************************************************************************)
(* C11: from a Portfolio of 1,000,000.00 the run execute(Buy AAPL 100 @    *)
(* 185.50), execute(Buy GOOGL 50 @ 140.25), execute(Sell MSFT 75 @ 420.00),*)
(* undo, undo, redo shows cash 981,450.00, 974,437.50, 1,005,937.50,       *)
(* 974,437.50, 981,450.00, 974,437.50 after its calls and ends with        *)
(* AAPL 100, GOOGL 50, MSFT 0 and the listing "1. BUY 100 AAPL @ $185.50", *)
(* "2. BUY 50 GOOGL @ $140.25".                                            *)
(***************************************************************************)
C11_DemoRun ==
    (InDemoRun /\ N >= 1) =>
        /\ portfolio.cash = DemoCashAfter[N]
        /\ N = Len(DemoCalls) =>
              /\ Qty(portfolio, "AAPL") = 100
              /\ Qty(portfolio, "GOOGL") = 50
              /\ Qty(portfolio, "MSFT") = 0
              /\ print_history(History) =
                    << "1. BUY 100 AAPL @ $185.50", "2. BUY 50 GOOGL @ $140.25" >>

\* the demo run has been made to its end
C11_Witness ==
    /\ InDemoRun
    /\ N = Len(DemoCalls)
    /\ History.undone = << SellTrade("MSFT", 75, Price420_00) >>

(***************************************************************************)
(* C12: listing the history yields one description per action on the undo  *)
(* stack, in insertion order and numbered 1..n with n the length of the    *)
(* undo stack; no line stands for an action on the redo stack; the call    *)
(* changes neither stack nor the Portfolio.                                *)
(***************************************************************************)
C12_ListShowsUndoStack ==
    LastCalls(<<"print_history">>) =>
        LET h     == Call(0).pre.objs["history"]
            lines == Call(0).ret
        IN  /\ Len(lines) = Len(h.executed)
            /\ \A i \in 1..Len(h.executed) :
                  lines[i] = IntToStr(i) \o ". " \o action_description(h.executed[i])
            /\ \A i \in 1..Len(h.undone) :
                  (\A j \in 1..Len(h.executed) :
                      action_description(h.executed[j]) # action_description(h.undone[i]))
                  => \A k \in 1..Len(lines) :
                         lines[k] # IntToStr(k) \o ". " \o action_description(h.undone[i])
            /\ History = h
            /\ portfolio = Call(0).pre.portfolio

\* a listing made with two actions on the undo stack and another one undone
C12_Witness ==
    /\ LastCalls(<<"print_history">>)
    /\ Len(Call(0).pre.objs["history"].executed) = 2
    /\ Call(0).pre.objs["history"].executed[1] # Call(0).pre.objs["history"].executed[2]
    /\ Len(Call(0).pre.objs["history"].undone) = 1
    /\ \A j \in 1..2 : Call(0).pre.objs["history"].executed[j] #
                          Call(0).pre.objs["history"].undone[1]

(***************************************************************************)
(* C13: execute succeeds from every reachable state, also on a C           *)
(* TradeHistory whose exec_count has reached MAX_HISTORY = 64: it appends  *)
(* the action to the undo stack and writes no slot outside the stack's     *)
(* storage.                                                                *)
(* Fails: with exec_count = 64 history_execute stores to executed[64].     *)
(***************************************************************************)
C13_ExecuteAlwaysSucceeds ==
    LastCalls(<<"execute">>) =>
        LET h == Call(0).pre.objs["history"]
        IN  /\ ~History.oob
            /\ History.exec_count = h.exec_count + 1
            /\ History.exec_count <= MAX_HISTORY
            /\ History.executed[History.exec_count] = Call(0).action
            /\ \A i \in 1..h.exec_count : History.executed[i] = h.executed[i]

\* the tagged-union action with the fields of the order o
TaggedOf(o) ==
    IF o.kind = "MarketBuy" THEN BuyTrade(o.symbol, o.quantity, o.price)
    ELSE SellTrade(o.symbol, o.quantity, o.price)

\* the C tagged-union command with the fields of the order o
TradeCommandOf(o) ==
    IF o.kind = "MarketBuy" THEN cmd_buy(o.chars, o.quantity, o.price)
    ELSE cmd_sell(o.chars, o.quantity, o.price)

(***************************************************************************)
(* C14: the tagged-union encoding (BuyTrade/SellTrade through              *)
(* execute_action/undo_action; CMD_BUY/CMD_SELL through cmd_execute/       *)
(* cmd_undo) and the type-erased encoding (MarketBuy/LimitSell; the        *)
(* market_buy and limit_sell functions) change the Portfolio identically: a *)
(* type-erased execute or undo leaves the Portfolio the tagged-union call  *)
(* with the same fields would leave.                                       *)
(***************************************************************************)
C14_EncodingsAgree ==
    (N >= 1 /\ Call(0).on = "portfolio2") =>
        LET o  == Call(0).action
            p  == Call(0).pre.objs["portfolio2"]
            cp == Call(0).pre.objs["c_portfolio2"]
        IN  IF Call(0).op = "execute"
            THEN /\ objs["portfolio2"] = execute_action(TaggedOf(o), p)
                 /\ cmd_execute(TradeCommandOf(o), cp) = {objs["c_portfolio2"]}
            ELSE /\ objs["portfolio2"] = undo_action(TaggedOf(o), p)
                 /\ cmd_undo(TradeCommandOf(o), cp) = {objs["c_portfolio2"]}

\* a LimitSell and a MarketBuy have been executed and the LimitSell undone
C14_Witness ==
    /\ N >= 3
    /\ Call(0).on = "portfolio2"
    /\ Call(0).op = "undo" /\ Call(0).action.kind = "LimitSell"
    /\ \E i \in 1..(N - 1) : log[i].op = "execute" /\ log[i].action.kind = "MarketBuy"
    /\ \E i \in 1..(N - 1) : log[i].op = "execute" /\ log[i].action = Call(0).action

(***************************************************************************)
(* C15: the forward effect of an action is exactly this: a Buy adds        *)
(* quantity to the position of its symbol and subtracts quantity*price     *)
(* from cash; a Sell subtracts quantity from the position (which may go    *)
(* negative) and adds quantity*price to cash; no other position changes.   *)
(***************************************************************************)
C15_ForwardEffect ==
    LastCalls(<<"execute">>) =>
        LET p      == Call(0).pre.portfolio
            a      == Call(0).action
            amount == FMul(FFromInt(a.quantity), a.price)
        IN  /\ DOMAIN portfolio.positions = DOMAIN p.positions \cup {a.symbol}
            /\ IF a.type = "BuyTrade"
               THEN Moved(p, portfolio, a.symbol, a.quantity, FSub(p.cash, amount))
               ELSE Moved(p, portfolio, a.symbol, -a.quantity, FAdd(p.cash, amount))

\* a Sell of shares that are not held, after a Buy of another symbol
C15_Witness ==
    /\ LastCalls(<<"execute", "execute">>)
    /\ Call(1).action.type = "BuyTrade"
    /\ Call(0).action.type = "SellTrade"
    /\ Qty(Call(0).pre.portfolio, Call(0).action.symbol) = 0
    /\ Qty(portfolio, Call(0).action.symbol) < 0

\* the action of the other kind with the same symbol, quantity and price
Opposite(a) ==
    IF a.type = "BuyTrade" THEN SellTrade(a.symbol, a.quantity, a.price)
    ELSE BuyTrade(a.symbol, a.quantity, a.price)

(***************************************************************************)
(* C16: on every Portfolio state, inverting a Buy has the effect of        *)
(* applying a Sell with the same symbol, quantity and price, and           *)
(* inverting a Sell the effect of applying the same Buy.                   *)
(***************************************************************************)
C16_InverseIsOpposite ==
    /\ \A a \in Trades :
          undo_action(a, portfolio) = execute_action(Opposite(a), portfolio)
    /\ (N >= 1 /\ Call(0).op = "undo_action") =>
          portfolio = execute_action(Opposite(Call(0).action), Call(0).pre.portfolio)

\* a Buy has been inverted on a Portfolio that held a short position in
\* another symbol
C16_Witness ==
    /\ N >= 2
    /\ Call(0).op = "undo_action"
    /\ Call(0).action.type = "BuyTrade"
    /\ \E symbol \in Symbols \ {Call(0).action.symbol} :
          Qty(Call(0).pre.portfolio, symbol) < 0

\* the actions passed to execute so far
Executed == { log[i].action : i \in { j \in 1..N : log[j].op = "execute" } }

\* the actions on the two stacks of h
OnStacks(h) ==
    { h.executed[i] : i \in 1..Len(h.executed) } \cup
    { h.undone[i] : i \in 1..Len(h.undone) }

(***************************************************************************)
(* C17: undoing never records a new, opposite action: the undone action    *)
(* goes to the redo stack with its kind kept, no action is added to        *)
(* either stack, and in every reachable state each stack holds only        *)
(* actions that were passed to execute, of the kind they were passed as.   *)
(***************************************************************************)
C17_NoOppositeRecorded ==
    /\ OnStacks(History) \subseteq Executed
    /\ (LastCalls(<<"undo">>) /\ Call(0).ret = "true") =>
          LET h == Call(0).pre.objs["history"]
          IN  /\ Back(History.undone).type = Back(h.executed).type
              /\ Len(History.executed) + Len(History.undone) =
                    Len(h.executed) + Len(h.undone)
              /\ OnStacks(History) = OnStacks(h)

\* a Buy has been undone whose opposite Sell was never passed to execute
C17_Witness ==
    /\ LastCalls(<<"undo">>)
    /\ Call(0).ret = "true"
    /\ Back(History.undone).type = "BuyTrade"
    /\ Opposite(Back(History.undone)) \in Trades
    /\ Opposite(Back(History.undone)) \notin Executed

Reverse(v) == [i \in 1..Len(v) |-> v[Len(v) + 1 - i]]

\* the actions of h in the order they were executed: the undo stack,
\* then the redo stack from its last element down
Timeline(h) == h.executed \o Reverse(h.undone)

(***************************************************************************)
(* C18: the fields of an action never change after it was passed to        *)
(* execute: the action recorded is the one passed, and across undo and     *)
(* redo every action on the stacks, the moved one included, is read back   *)
(* with the symbol, quantity, price and kind it had.                       *)
(***************************************************************************)
C18_ActionsImmutable ==
    /\ LastCalls(<<"execute">>) =>
          History.executed = Append(Call(0).pre.objs["history"].executed, Call(0).action)
    /\ (LastCalls(<<"undo">>) \/ LastCalls(<<"redo">>)) =>
          Timeline(History) = Timeline(Call(0).pre.objs["history"])
    /\ (LastCalls(<<"execute", "undo", "redo", "undo">>)) =>
          Back(History.undone) = Call(3).action

\* an action has been executed, undone, redone and undone again, below
\* another action
C18_Witness ==
    /\ LastCalls(<<"execute", "execute", "undo", "redo", "undo">>)
    /\ Call(4).action # Call(3).action
    /\ Back(History.undone) = Call(3).action
    /\ History.executed = << Call(4).action >>

\* an execute has been called on the history
HasExecuted == \E k \in 1..N : log[k].op = "execute" /\ log[k].on = "history"

\* the position in the log of the last execute on the history
LastExecute ==
    CHOOSE k \in 1..N :
        /\ log[k].op = "execute" /\ log[k].on = "history"
        /\ \A j \in (k + 1)..N : ~(log[j].op = "execute" /\ log[j].on = "history")

(***************************************************************************)
(* C19: an action that is on the redo stack when an execute occurs is      *)
(* discarded for good: in every later state the two stacks hold, position  *)
(* by position, only the actions the undo stack held right after that      *)
(* execute (until a later execute adds its own), so the discarded action   *)
(* is on neither stack, and every later redo re-applies one of those kept  *)
(* actions, never a discarded one.                                         *)
(***************************************************************************)
C19_DiscardedForGood ==
    HasExecuted =>
        LET k    == LastExecute
            kept == Append(log[k].pre.objs["history"].executed, log[k].action)
        IN  /\ Timeline(History) = kept
            /\ \A j \in (k + 1)..N :
                  (log[j].op = "redo" /\ log[j].ret = "true") =>
                      LET h == log[j].pre.objs["history"]
                      IN  /\ Len(h.executed) < Len(kept)
                          /\ Back(h.undone) = kept[Len(h.executed) + 1]

\* execute(A); undo(); execute(B) has discarded A, and B has since been
\* undone and redone
C19_Witness ==
    /\ LastCalls(<<"execute", "undo", "execute", "undo", "redo">>)
    /\ Call(2).pre.objs["history"].undone = << Call(4).action >>
    /\ Call(4).action # Call(2).action
    /\ Call(0).ret = "true"
    /\ Call(4).action \notin OnStacks(History)

\* a call has been entered and has not returned
Running == objs["frame"].pc # "idle"

\* the outcomes the running call can return with
Outcomes ==
    LET f == objs["frame"]
    IN  IF f.op = "execute" THEN history_execute(objs["history"], f.cmd, portfolio)
        ELSE IF f.op = "undo" THEN history_undo(objs["history"], portfolio)
        ELSE history_redo(objs["history"], portfolio)

\* a bound on the steps the running call has yet to take
StepsLeft ==
    LET f == objs["frame"]
    IN  IF f.pc = "find" THEN portfolio.count - f.i + 2
        ELSE IF f.pc = "finish" THEN 1
        ELSE 0

(***************************************************************************)
(* C20: every call of execute, undo, redo and snapshot terminates and      *)
(* never blocks: a call returns at once or is entered; once entered it     *)
(* can always take its next step without waiting for anything, and every   *)
(* step brings it closer to its return (the steps left, a natural number,  *)
(* go down with each step).                                                *)
(***************************************************************************)
C20_CallsTerminate ==
    /\ [](Running => (objs["frame"].pc = "find" \/ Outcomes # {}))
    /\ [][Running => (StepsLeft' < StepsLeft /\ StepsLeft' >= 0)]_vars

\* a call has returned after its search went past two other symbols
C20_Witness ==
    /\ ~Running
    /\ N >= 1
    /\ Call(0).pre.objs["frame"].pc = "finish"
    /\ Call(0).pre.objs["frame"].i >= 2
    /\ snapshot # "none"

\* no caller holds the lock
LockFree == objs["lock"] = "free"

\* at a point where no caller holds the lock no call is half done: every
\* caller is outside, and the two stacks hold, in order, exactly the undo
\* stack as it stood after the last execute
NoneHalfDone ==
    LockFree =>
        /\ \A c \in Callers : objs[c].pc = "outside"
        /\ HasExecuted =>
              Timeline(History) =
                 Append(log[LastExecute].pre.objs["history"].executed,
                        log[LastExecute].action)
        /\ ~HasExecuted => History = NewHistory

(***************************************************************************)
(* C21: with several callers whose every call runs inside one mutual-      *)
(* exclusion section, at every point where no caller holds the lock the    *)
(* Portfolio equals the replay of the undo stack on the initial Portfolio, *)
(* no action is missing from or duplicated across the two stacks, and no   *)
(* half-done call is observable.                                           *)
(* Fails: the stacks are whole, but undoing does not always restore the    *)
(* cash (see C3), so the Portfolio differs from the replay.                *)
(***************************************************************************)
C21_LockedCallsKeepInvariant ==
    /\ NoneHalfDone
    /\ LockFree => SamePortfolio(portfolio, Replay(History.executed, InitialPortfolio))

\* an action as a caller sees it: kind, symbol, quantity, price
ClassicView(cmd) ==
    [kind |-> IF cmd.type = "BuyCommand" THEN "Buy" ELSE "Sell",
     symbol |-> cmd.symbol_, quantity |-> cmd.quantity_, price |-> cmd.price_]

ModernView(a) ==
    [kind |-> IF a.type = "BuyTrade" THEN "Buy" ELSE "Sell",
     symbol |-> a.symbol, quantity |-> a.quantity, price |-> a.price]

CView(cmd) ==
    [kind |-> IF cmd.type = "CMD_BUY" THEN "Buy" ELSE "Sell",
     symbol |-> Join(cmd.symbol), quantity |-> cmd.quantity, price |-> cmd.price]

\* the first n slots of a C array; n slots cannot be read from an array
\* holding fewer
CStack(array, n) ==
    IF n > MAX_HISTORY THEN <<"unreadable">>
    ELSE [i \in 1..n |-> CView(array[i])]

\* the quantity the C Portfolio holds of a symbol
CQty(p, chars) ==
    IF portfolio_find(p, chars) < 0 THEN 0
    ELSE p.quantities[portfolio_find(p, chars) + 1]

\* booleans of the C program as those of the C++ programs
CBool(ret) == IF ret = 1 THEN "true" ELSE "false"

(***************************************************************************)
(* C22: driven by the same calls of execute(Buy/Sell), undo and redo, the  *)
(* classic CommandHistory, the modern TradeHistory and the C TradeHistory  *)
(* return the same booleans and end with the same undo-stack contents,     *)
(* the same redo-stack contents, the same cash and the same quantity of    *)
(* every symbol.                                                           *)
(* Fails: the C program cuts a symbol at 15 characters and stores to       *)
(* executed[64] once 64 actions are on the undo stack (see C13).           *)
(***************************************************************************)
C22_EncodingsEquivalent ==
    (N >= 1 /\ Call(0).on = "three") =>
        LET ch == objs["classic_history"]
            cp == objs["classic_portfolio"]
            mh == objs["history"]
            h  == objs["c_history"]
            p  == objs["c_portfolio"]
        IN  /\ Call(0).ret.classic = Call(0).ret.modern
            /\ Call(0).op # "execute" => CBool(Call(0).ret.c) = Call(0).ret.modern
            /\ [i \in 1..Len(ch.executed) |-> ClassicView(ch.executed[i])] =
                  [i \in 1..Len(mh.executed) |-> ModernView(mh.executed[i])]
            /\ [i \in 1..Len(ch.undone) |-> ClassicView(ch.undone[i])] =
                  [i \in 1..Len(mh.undone) |-> ModernView(mh.undone[i])]
            /\ CStack(h.executed, h.exec_count) =
                  [i \in 1..Len(mh.executed) |-> ModernView(mh.executed[i])]
            /\ CStack(h.undone, h.undo_count) =
                  [i \in 1..Len(mh.undone) |-> ModernView(mh.undone[i])]
            /\ cp.cash = portfolio.cash
            /\ p.cash = portfolio.cash
            /\ \A o \in ThreeOrders :
                  /\ Qty(cp, Join(o.chars)) = Qty(portfolio, Join(o.chars))
                  /\ CQty(p, o.chars) = Qty(portfolio, Join(o.chars))

\* the same, for runs that stay within what the C arrays can hold: symbols
\* of at most 15 characters and at most MAX_HISTORY actions
EquivalentWithinCapacity ==
    (\A i \in 1..N : log[i].op = "execute" =>
         /\ Len(log[i].action.chars) <= 15
         /\ log[i].pre.objs["c_history"].exec_count < MAX_HISTORY)
    => C22_EncodingsEquivalent

\* the last 2k calls executed a list of k type-erased commands in list
\* order and then undid every one of them in reverse list order
ExecutedThenUndone(k) ==
    /\ N >= 2 * k
    /\ \A i \in 1..k :
          /\ log[N - 2 * k + i].on = "portfolio2"
          /\ log[N - 2 * k + i].op = "execute"
          /\ log[N + 1 - i].on = "portfolio2"
          /\ log[N + 1 - i].op = "undo"
          /\ log[N + 1 - i].action = log[N - 2 * k + i].action

\* the quantity portfolio2 of the C++ program holds of the symbol of every
\* order, and its cash, as before the call
SamePortfolio2(p, q) ==
    /\ p.cash = q.cash
    /\ \A o \in Orders : Qty(p, o.symbol) = Qty(q, o.symbol)

\* the same for portfolio2 of the C program
SameCPortfolio2(p, q) ==
    /\ p.cash = q.cash
    /\ \A o \in Orders : CQty(p, o.chars) = CQty(q, o.chars)

(***************************************************************************)
(* C23: for any list of type-erased commands and any Portfolio state,      *)
(* executing every command in list order and then undoing every command    *)
(* in reverse list order leaves the cash and every symbol's quantity as    *)
(* they were before the first execute.                                     *)
(* Fails: the quantities return, the cash need not (see C3).               *)
(***************************************************************************)
C23_ExecuteAllUndoAll ==
    \A k \in 1..(MaxErasedCalls \div 2) :
        ExecutedThenUndone(k) =>
            /\ SamePortfolio2(objs["portfolio2"], log[N - 2 * k + 1].pre.objs["portfolio2"])
            /\ SameCPortfolio2(objs["c_portfolio2"],
                               log[N - 2 * k + 1].pre.objs["c_portfolio2"])

\* the part of C23 that holds: the quantities are as before
QuantitiesReturn ==
    \A k \in 1..(MaxErasedCalls \div 2) :
        ExecutedThenUndone(k) =>
            \A o \in Orders :
                /\ Qty(objs["portfolio2"], o.symbol) =
                      Qty(log[N - 2 * k + 1].pre.objs["portfolio2"], o.symbol)
                /\ CQty(objs["c_portfolio2"], o.chars) =
                      CQty(log[N - 2 * k + 1].pre.objs["c_portfolio2"], o.chars)

\* the readable part of a C history as one sequence: the undo stack, then
\* the redo stack from its top down
CTimeline(h) ==
    CStack(h.executed, h.exec_count) \o Reverse(CStack(h.undone, h.undo_count))

(***************************************************************************)
(* C24: undo and redo leave |undoStack| + |redoStack| unchanged; execute   *)
(* sets it to the previous |undoStack| + 1; no operation duplicates or     *)
(* drops an action, other than execute dropping the redo stack.  Stated on *)
(* the C history: the counts, and the actions in the counted slots.        *)
(* Fails: history_execute and history_redo on a history holding            *)
(* MAX_HISTORY actions store outside the array (see C13).                  *)
(***************************************************************************)
C24_StackSizesConserved ==
    (N >= 1 /\ Call(0).on = "history") =>
        LET pre == Call(0).pre.objs["history"]
            h   == History
        IN  /\ Call(0).op \in {"undo", "redo"} =>
                  /\ h.exec_count + h.undo_count = pre.exec_count + pre.undo_count
                  /\ CTimeline(h) = CTimeline(pre)
            /\ Call(0).op = "execute" =>
                  /\ h.exec_count + h.undo_count = pre.exec_count + 1
                  /\ CStack(h.executed, h.exec_count)
                       = Append(CStack(pre.executed, pre.exec_count),
                                CView(Call(0).action))

\* the same on calls that find room in the arrays
SizesConservedWithinCapacity ==
    (N >= 1 /\ Call(0).pre.objs["history"].exec_count < MAX_HISTORY) =>
        C24_StackSizesConserved

\* the same on the std::vector history of the modern program
SizesConservedInVectors ==
    (N >= 1 /\ Call(0).on = "history") =>
        LET pre == Call(0).pre.objs["history"]
            h   == History
        IN  /\ Call(0).op \in {"undo", "redo"} =>
                  /\ Len(h.executed) + Len(h.undone)
                       = Len(pre.executed) + Len(pre.undone)
                  /\ Timeline(h) = Timeline(pre)
            /\ Call(0).op = "execute" =>
                  /\ Len(h.executed) + Len(h.undone) = Len(pre.executed) + 1
                  /\ h.executed = Append(pre.executed, Call(0).action)

\* the last 2k calls were k undos that each returned true, then k redos
UndoneThenRedone(k) ==
    /\ N >= 2 * k
    /\ \A i \in 1..k :
          /\ log[N - 2 * k + i].op = "undo"
          /\ log[N - 2 * k + i].on = "history"
          /\ log[N - 2 * k + i].ret = "true"
          /\ log[N - k + i].op = "redo"
          /\ log[N - k + i].on = "history"

\* the action a recorded undo or redo took from the top of its stack
Taken(call) ==
    IF call.op = "undo" THEN Back(call.pre.objs["history"].executed)
    ELSE Back(call.pre.objs["history"].undone)

\* the k redos took the actions in the reverse of the order in which the k
\* undos took them, and the two stacks are those from before the first undo
StacksRestored(k) ==
    /\ History = log[N - 2 * k + 1].pre.objs["history"]
    /\ \A i \in 1..k :
          /\ log[N - k + i].ret = "true"
          /\ Taken(log[N - k + i]) = Taken(log[N - k + 1 - i])

(***************************************************************************)
(* C25: for every k up to the length of the undo stack, k successful undos *)
(* followed by k redos restore the undo stack with its order, the redo     *)
(* stack and the Portfolio; the actions are redone in the reverse of the   *)
(* order in which they were undone.                                        *)
(* Fails: redoing does not always restore the cash (double arithmetic, as  *)
(* in C3); the two stacks are restored.                                    *)
(***************************************************************************)
C25_UndosThenRedos ==
    \A k \in 1..(MaxCalls \div 2) :
        UndoneThenRedone(k) =>
            /\ StacksRestored(k)
            /\ SamePortfolio(portfolio, log[N - 2 * k + 1].pre.portfolio)

\* the stacks alone
C25_StacksAlone ==
    \A k \in 1..(MaxCalls \div 2) : UndoneThenRedone(k) => StacksRestored(k)

\* the symbol the last call acted on: that of the command executed, or of
\* the command an undo or redo took from its stack
CActedOn ==
    LET pre == Call(0).pre.objs["history"]
    IN  IF Call(0).op = "execute" THEN Call(0).action.symbol
        ELSE IF Call(0).op = "undo" THEN pre.executed[pre.exec_count].symbol
        ELSE pre.undone[pre.undo_count].symbol

\* the last call was an execute, or an undo or a redo that returned 1
CActed ==
    /\ N >= 1
    /\ Call(0).on = "history"
    /\ Call(0).op = "execute" \/ Call(0).ret = 1

(***************************************************************************)
(* C26: executing, undoing or redoing an action on symbol X changes only   *)
(* the quantity of X and the cash; the quantity of every other symbol is   *)
(* unchanged, also in the C Portfolio, whose symbols are 16-byte buffers   *)
(* compared with strcmp.  Stated on the C Portfolio: every slot in use     *)
(* that holds another symbol keeps its symbol and its quantity.            *)
(* Fails: the 33rd symbol is stored over quantities[0..3] (see C27).       *)
(***************************************************************************)
C26_OtherSymbolsUnchanged ==
    CActed =>
        \A i \in 1..Call(0).pre.portfolio.count :
            Call(0).pre.portfolio.symbols[i] # CActedOn =>
                /\ portfolio.symbols[i] = Call(0).pre.portfolio.symbols[i]
                /\ portfolio.quantities[i] = Call(0).pre.portfolio.quantities[i]

\* the same on calls that find the symbol or a free slot
OthersUnchangedWithinCapacity ==
    (CActed /\ ~portfolio.oob) => C26_OtherSymbolsUnchanged

\* the symbol the last call on the modern history acted on
ActedOn ==
    IF Call(0).op = "execute" THEN Call(0).action.symbol
    ELSE Taken(Call(0)).symbol

\* the same on the std::map Portfolio of the modern program
OthersUnchangedInMap ==
    (N >= 1 /\ Call(0).on = "history" /\ (Call(0).op = "execute" \/ Call(0).ret = "true")) =>
        \A symbol \in Symbols :
            symbol # ActedOn => Qty(portfolio, symbol) = Qty(Call(0).pre.portfolio, symbol)

(***************************************************************************)
(* C27: in the C Portfolio count stays within 0..MAX_POSITIONS and every   *)
(* store of portfolio_adjust to symbols[] and quantities[] uses an index   *)
(* below MAX_POSITIONS; a slot in use stays in use with its symbol, also   *)
(* when its quantity returns to 0.                                         *)
(* Fails: portfolio_adjust takes idx = count++ for a new symbol without    *)
(* comparing it with MAX_POSITIONS.                                        *)
(***************************************************************************)
C27_PositionsWithinArray ==
    /\ portfolio.count \in 0..MAX_POSITIONS
    /\ ~portfolio.oob
    /\ CActed =>
          /\ portfolio.count >= Call(0).pre.portfolio.count
          /\ \A i \in 1..Call(0).pre.portfolio.count :
                portfolio.symbols[i] = Call(0).pre.portfolio.symbols[i]

\* slots are kept on calls that find the symbol or a free slot, and a
\* quantity that returned to 0 keeps its slot
SlotsKeptWithinCapacity ==
    (CActed /\ ~portfolio.oob) =>
        /\ portfolio.count \in Call(0).pre.portfolio.count..MAX_POSITIONS
        /\ \A i \in 1..Call(0).pre.portfolio.count :
              portfolio.symbols[i] = Call(0).pre.portfolio.symbols[i]

\* the quantity of S00 has returned to 0 and its slot is still in use
SlotKeptAtZero ==
    /\ LastCalls(<<"execute">>)
    /\ Call(0).action.symbol = Name(0)
    /\ Call(0).pre.portfolio.count = MAX_POSITIONS - 1
    /\ portfolio.quantities[1] = 0
    /\ portfolio.count = MAX_POSITIONS - 1

\* what a recorded call applied to the Portfolio: the forward effect of the
\* action executed or redone, the inverse effect of the action undone
Effect(call, p) ==
    IF call.op = "execute" THEN execute_action(call.action, p)
    ELSE IF call.op = "undo" /\ call.ret = "true"
         THEN undo_action(Back(call.pre.objs[call.on].executed), p)
    ELSE IF call.op = "redo" /\ call.ret = "true"
         THEN execute_action(Back(call.pre.objs[call.on].undone), p)
    ELSE p

\* the effects of the calls log[i], log[i+1], ... applied in that order
RECURSIVE Effects(_, _)
Effects(i, p) == IF i > N THEN p ELSE Effects(i + 1, Effect(log[i], p))

\* a call has been made on the copy
CopyDriven == \E i \in 1..N : log[i].on # "history"

\* taking the copy changed neither the history nor the Portfolio
CopyTakenApart ==
    (N >= 1 /\ Call(0).op = "snapshot") =>
        /\ History = Call(0).pre.objs["history"]
        /\ portfolio = Call(0).pre.portfolio

(***************************************************************************)
(* C28 as stated: with a history h1 and a snapshot h2 of it both driven    *)
(* against the same Portfolio, the Portfolio equals the replay of the undo *)
(* stack of h1 from the initial state; taking the snapshot changes neither *)
(* h1 nor the Portfolio.                                                   *)
(* Fails: a call on h2 changes the Portfolio and not the stacks of h1.     *)
(***************************************************************************)
C28_AsStated ==
    /\ snapshot # "none" =>
          SamePortfolio(portfolio, Replay(History.executed, InitialPortfolio))
    /\ CopyTakenApart

\* as stated, the quantities alone
C28_QuantitiesAsStated ==
    snapshot # "none" =>
        \A symbol \in Symbols :
            Qty(portfolio, symbol)
              = Qty(Replay(History.executed, InitialPortfolio), symbol)

(***************************************************************************)
(* C28 amended: with h1 and h2 both driven against the same Portfolio, the *)
(* Portfolio is the initial one with the effect of every call applied in   *)
(* call order, whichever history the call was made on: the action executed *)
(* or redone applied forward, the action undone applied in inverse; as     *)
(* long as no call was made on h2 every quantity equals that of the replay *)
(* of the undo stack of h1; taking the snapshot changes neither h1 nor the *)
(* Portfolio.                                                              *)
(***************************************************************************)
C28_SharedPortfolio ==
    /\ snapshot # "none" =>
          /\ SamePortfolio(portfolio, Effects(1, InitialPortfolio))
          /\ ~CopyDriven => C28_QuantitiesAsStated
    /\ CopyTakenApart

\* after the copy was taken, a call that changed the Portfolio was made on
\* the copy and then an execute on the history: the quantities are no
\* longer those of the replay of the undo stack of the history
C28_Witness ==
    /\ snapshot # "none"
    /\ N >= 2
    /\ Call(0).on = "history" /\ Call(0).op = "execute"
    /\ Call(1).on # "history"
    /\ Call(1).pre.portfolio # Call(0).pre.portfolio
    /\ ~C28_QuantitiesAsStated

\* the strategy the order o was last given in the first i calls: by its
\* constructor, by set_strategy, or with the order it was copied from
RECURSIVE LastAssigned(_, _)
LastAssigned(o, i) ==
    IF i = 0 THEN NoAction
    ELSE IF log[i].op \in {"Order", "set_strategy"} /\ log[i].on = o THEN log[i].action
    ELSE IF log[i].op = "copy" /\ o = "order2" THEN LastAssigned("order", i - 1)
    ELSE LastAssigned(o, i - 1)

\* the first line an order for 10000 AAPL at 185.50 prints with strategy k
SendsUsing(k) == "Order: AAPL 10000 shares @ $185.50 using " \o k.kind

\* the line the strategy k prints for that order: in the modern program, in
\* the C program with the tagged union, in the C program with the table
ExecutesAs(k, program) ==
    LET tag == "[" \o k.kind \o (IF program = "erased" THEN "-erased" ELSE "")
                 \o "] Executing AAPL: 10000 shares @ $185.50 "
    IN  CASE k.kind = "TWAP" ->
                tag \o "across " \o (IF k.arg = 5 THEN "5" ELSE "10")
                  \o (IF program = "modern" THEN " time slices (" ELSE " slices (")
                  \o (IF k.arg = 5 THEN "2000" ELSE "1000") \o "/slice)"
          [] k.kind = "VWAP" ->
                tag \o "with 15% participation"
                  \o (IF program = "modern" THEN " rate" ELSE "")
          [] k.kind = "Iceberg" -> tag \o "showing 500 at a time"

\* the order o of each program and the Model it owns are as before the
\* last call
OrderUntouched(o) ==
    LET pre == Call(0).pre.objs
    IN  /\ objs[o] = pre[o]
        /\ objs[o].strategy_.pimpl_ \in DOMAIN objs["heap"]
        /\ objs["heap"][objs[o].strategy_.pimpl_] = pre["heap"][pre[o].strategy_.pimpl_]
        /\ objs[Tagged(o)] = pre[Tagged(o)]
        /\ objs[Erased(o)] = pre[Erased(o)]

\* the other of the two orders
OtherOrder(o) == IF o = "order" THEN "order2" ELSE "order"

(***************************************************************************)
(* C29: an Order sends with the strategy most recently assigned to it, by  *)
(* its constructor or by set_strategy; a copy of an Order is independent:  *)
(* assigning a strategy to the copy leaves the strategy, symbol, quantity  *)
(* and price of the original unchanged, and the other way round.  In the   *)
(* modern program and in both Orders of the C program.                     *)
(***************************************************************************)
C29_SendsWithLastAssigned ==
    N >= 2 =>
        /\ Call(0).op = "send" =>
              LET k == LastAssigned(Call(0).on, N)
              IN  /\ Call(0).ret.modern = <<SendsUsing(k), ExecutesAs(k, "modern")>>
                  /\ Call(0).ret.c = <<SendsUsing(k), ExecutesAs(k, "tagged")>>
                  /\ Call(0).ret.erased = <<SendsUsing(k), ExecutesAs(k, "erased")>>
        /\ (Call(0).op = "set_strategy" /\ "order2" \in DOMAIN objs) =>
              /\ OrderUntouched(OtherOrder(Call(0).on))
              /\ \A f \in {"symbol_", "quantity_", "price_"} :
                    objs[Call(0).on][f] = Call(0).pre.objs[Call(0).on][f]
        /\ Call(0).op = "copy" => OrderUntouched("order")

\* the copy was given another strategy than the original has, and the
\* original has then sent
C29_Witness ==
    /\ N >= 4
    /\ Call(0).op = "send" /\ Call(0).on = "order"
    /\ Call(1).op = "set_strategy" /\ Call(1).on = "order2"
    /\ Call(1).action # LastAssigned("order", N)
    /\ Call(2).op = "copy"

\* one invocation per instrument, in container order, of the handler the
\* pass has for the kind the instrument was made as
OwnHandlers(pass) ==
    [i \in 1..Len(objs["made"]) |-> Handled(pass, objs["made"][i].kind, i)]

(***************************************************************************)
(* C30: one pass of a visitor over a portfolio of instruments invokes, for *)
(* each instrument exactly once and in container order, the handler for    *)
(* the kind of that instrument (Bond, Swap or Option) and no handler of    *)
(* another kind; it leaves the portfolio unchanged; the classic double     *)
(* dispatch, the std::variant and the C tagged-union programs make the     *)
(* same sequence of handler invocations.                                   *)
(***************************************************************************)
C30_OneHandlerPerInstrument ==
    (N >= 1 /\ Call(0).op = "pass") =>
        /\ Call(0).ret.classic = OwnHandlers(Call(0).action)
        /\ Call(0).ret.modern = OwnHandlers(Call(0).action)
        /\ Call(0).ret.c = OwnHandlers(Call(0).action)
        /\ objs = Call(0).pre.objs

\* a second pass, with another visitor, over a portfolio holding a Swap
\* between instruments of other kinds
C30_Witness ==
    /\ N = 2
    /\ Call(0).op = "pass"
    /\ Call(0).action # Call(1).action
    /\ Len(objs["made"]) = 3
    /\ objs["made"][2].kind = "Swap"
    /\ objs["made"][1].kind # "Swap"
    /\ objs["made"][3].kind = "Option"
    /\ Len(Call(0).ret.classic) = 3

====
